---------------------------- MODULE Spec2Model ----------------------------
(***************************************************************************)
(* A model of the lab text-to-SQL service (src/api): the SQL policy        *)
(* validator (SQLGenerator.validate_sql), the result cache (QueryCache)    *)
(* and the /query/sql request pipeline (generate_sql_from_question).       *)
(*                                                                         *)
(* Texts are sequences of one-character strings, so that upper(), strip(), *)
(* substring tests and the regular expressions of the source are computed  *)
(* character by character, as Python computes them.                        *)
(***************************************************************************)
EXTENDS Integers, Sequences, FiniteSets, TLC

VARIABLES
    sql_query,          \* validate_sql: the text under validation
    validation_result,  \* validate_sql: the QueryValidation it returned
    vpc,                \* the gate's position: "input", "validated", "rejected",
                        \*   "accepted"; "off" when no text is validated on its own
    http_detail,        \* the detail of the HTTP 400 answer of a rejected candidate
    _cache,             \* QueryCache._cache: key -> result
    _timestamps,        \* QueryCache._timestamps: <<[key, time]>> in the dict's order
    _hits,              \* QueryCache._hits
    _misses,            \* QueryCache._misses
    _total_requests,    \* QueryCache._total_requests
    now,                \* what time.time() returns
    last,               \* the last cache call: its arguments, return value and branch
    nops,               \* how many cache calls were made
    ever_set,           \* history: the texts set was ever called with
    set_results,        \* history: text -> [result, time] of the last set of the
                        \*   text whose entry has not expired, been evicted or cleared
    distinct_run,       \* history: the keys set since the cache was created or
                        \*   cleared, whether they were all different and none
                        \*   expired, and whether a get hit the first of them
    requests,           \* the /query/sql requests: where each handler stands, its locals
    running,            \* the handler that runs on the event loop, 0 when none does
    valid_sql,          \* history: the texts validate_sql found valid in a handler
    executed_sql,       \* history: the texts passed to db_manager.execute_query
    cached_sql,         \* history: the texts passed to query_cache.get and .set
    calls,              \* the cache calls in progress, statement by statement
    lin,                \* history: the cache after the completed calls, one at a time
    ncalls,             \* how many cache calls were begun
    response_text,      \* generate_sql: response['response'], the model's raw text
    sql_result,         \* generate_sql: what _parse_sql_response returned
    gpc,                \* generate_sql: where the call stands
    hash_order,         \* the order of the strings' hashes in the running program
    doc_input,          \* the table metadata and catalog entry of the last build
    schema_text,        \* the document the last build returned
    earlier_text,       \* history: the document of the build before, of the same input
    builds,             \* history: how often doc_input was built, 0 to 2
    collection,         \* the Qdrant collection: point id -> vector and payload
    kb,                 \* the knowledge base directory kb_path on disk
    runs,               \* the calls of ingest_schema: where each stands, its locals
    finds,              \* the calls of find_relevant_tables
    last_upsert,        \* history: the points of the last upsert since the
                        \*   collection was created
    served              \* history: the requests the status application (src/app)
                        \*   served, each with its response

(***************************************************************************)
(* Bounds of the model.                                                    *)
(***************************************************************************)
\* An input text of the validator is the concatenation of at most MaxPieces
\* pieces of the vocabulary Pieces.
MaxPieces == 2

(***************************************************************************)
(* Characters and the str methods the source uses.                         *)
(***************************************************************************)
LowerLetters ==
    {"a", "b", "c", "d", "e", "f", "g", "h", "i", "j", "k", "l", "m",
     "n", "o", "p", "q", "r", "s", "t", "u", "v", "w", "x", "y", "z"}

UpperLetters ==
    {"A", "B", "C", "D", "E", "F", "G", "H", "I", "J", "K", "L", "M",
     "N", "O", "P", "Q", "R", "S", "T", "U", "V", "W", "X", "Y", "Z"}

Digits == {"0", "1", "2", "3", "4", "5", "6", "7", "8", "9"}

UpperMap ==
    ("a" :> "A") @@ ("b" :> "B") @@ ("c" :> "C") @@ ("d" :> "D") @@
    ("e" :> "E") @@ ("f" :> "F") @@ ("g" :> "G") @@ ("h" :> "H") @@
    ("i" :> "I") @@ ("j" :> "J") @@ ("k" :> "K") @@ ("l" :> "L") @@
    ("m" :> "M") @@ ("n" :> "N") @@ ("o" :> "O") @@ ("p" :> "P") @@
    ("q" :> "Q") @@ ("r" :> "R") @@ ("s" :> "S") @@ ("t" :> "T") @@
    ("u" :> "U") @@ ("v" :> "V") @@ ("w" :> "W") @@ ("x" :> "X") @@
    ("y" :> "Y") @@ ("z" :> "Z")

\* str.upper() on one character: a lower-case letter becomes its capital,
\* every other character of the model's alphabet is unchanged.
UpperChar(c) == IF c \in LowerLetters THEN UpperMap[c] ELSE c

\* str.upper()
upper(s) == [i \in 1..Len(s) |-> UpperChar(s[i])]

\* The characters \s matches and str.strip() removes.
IsSpace(c) == c \in {" ", "\t", "\n", "\r", "\f"}

\* s[i:].startswith(p), i counted from 1
StartsWithAt(s, i, p) ==
    /\ i >= 1
    /\ i + Len(p) - 1 <= Len(s)
    /\ \A j \in 1..Len(p) : s[i + j - 1] = p[j]

\* str.startswith
startswith(s, p) == StartsWithAt(s, 1, p)

\* p in s
Contains(s, p) == \E i \in 1..(Len(s) - Len(p) + 1) : StartsWithAt(s, i, p)

\* str.count of a single character
count(s, c) == Cardinality({i \in 1..Len(s) : s[i] = c})

\* str.strip(): the text without its leading and trailing whitespace
strip(s) ==
    LET keep == {i \in 1..Len(s) : ~IsSpace(s[i])}
    IN  IF keep = {} THEN <<>>
        ELSE LET first == CHOOSE i \in keep : \A j \in keep : i <= j
                 last_ == CHOOSE i \in keep : \A j \in keep : j <= i
             IN  SubSeq(s, first, last_)

\* str.replace(p, ""), left to right, non-overlapping
RECURSIVE RemoveAll(_, _, _)
RemoveAll(s, p, i) ==
    IF i > Len(s) THEN <<>>
    ELSE IF Len(p) > 0 /\ StartsWithAt(s, i, p) THEN RemoveAll(s, p, i + Len(p))
    ELSE <<s[i]>> \o RemoveAll(s, p, i + 1)

\* A literal of a pattern compiled with re.IGNORECASE matches at i: p is
\* given in capitals.
MatchesAt(s, i, p) ==
    /\ i >= 1
    /\ i + Len(p) - 1 <= Len(s)
    /\ \A j \in 1..Len(p) : UpperChar(s[i + j - 1]) = p[j]

\* no character of s[i..j] is a line break: what ".*" can span without DOTALL
NoNewline(s, i, j) == \A k \in i..j : s[k] # "\n"

(***************************************************************************)
(* Literals of the source.                                                 *)
(***************************************************************************)
\* settings.POC_TABLES
POC_TABLES ==
    << <<"o">>, <<"r">>, <<"s", "a">>, <<"r", "r">>, <<"e", "p">>,
       <<"t", "a", "t">>, <<"c">>, <<"c", "t", "i">>, <<"m">>, <<"i">>,
       <<"m", "c">>, <<"m", "a", "c">>, <<"a", "o">>, <<"a", "r">>,
       <<"a", "s", "a">>, <<"a", "r", "r">>, <<"a", "e", "p">> >>

K_DROP == <<"D", "R", "O", "P">>
K_DELETE == <<"D", "E", "L", "E", "T", "E">>
K_UPDATE == <<"U", "P", "D", "A", "T", "E">>
K_INSERT == <<"I", "N", "S", "E", "R", "T">>
K_TRUNCATE == <<"T", "R", "U", "N", "C", "A", "T", "E">>
K_ALTER == <<"A", "L", "T", "E", "R">>
K_CREATE == <<"C", "R", "E", "A", "T", "E">>
K_SELECT == <<"S", "E", "L", "E", "C", "T">>
K_FROM == <<"F", "R", "O", "M">>
K_JOIN == <<"J", "O", "I", "N">>
K_UNION == <<"U", "N", "I", "O", "N">>
K_LIMIT == <<"L", "I", "M", "I", "T">>
K_TOP == <<"T", "O", "P">>
K_NOLOCK == <<"(", "N", "O", "L", "O", "C", "K", ")">>
K_DATE == <<"D", "A", "T", "E">>
K_YYYYMMDD == <<"Y", "Y", "Y", "Y", "M", "M", "D", "D">>
K_BETWEEN == <<"B", "E", "T", "W", "E", "E", "N">>
K_EQ == <<"=">>
K_DASHES == <<"-", "-">>
K_OPEN_COMMENT == <<"/", "*">>
K_CLOSE_COMMENT == <<"*", "/">>
K_XP_CMDSHELL == <<"X", "P", "_", "C", "M", "D", "S", "H", "E", "L", "L">>
K_SP_EXECUTESQL ==
    <<"S", "P", "_", "E", "X", "E", "C", "U", "T", "E", "S", "Q", "L">>

\* dangerous_keywords, in the order of the source's list
dangerous_keywords ==
    <<K_DROP, K_DELETE, K_UPDATE, K_INSERT, K_TRUNCATE, K_ALTER, K_CREATE>>

\* The messages validate_sql appends.
MSG_DANGEROUS == "Potentially dangerous operation detected: "
MSG_SELECT_ONLY == "Only SELECT queries are allowed"
MSG_UNAUTHORIZED == "Query uses unauthorized tables: "
MSG_INJECTION == "Potential SQL injection pattern detected"
MSG_NO_LIMIT == "Query doesn't include LIMIT/TOP clause - this could return many rows"
MSG_NOLOCK == "Consider adding NOLOCK hints for better performance"
MSG_DATE == "Ensure date formats follow YYYYMMDD pattern (e.g., 20250820)"
MSG_PARENS == "Unbalanced parentheses detected"
MSG_VALIDATION_ERROR == "Validation error: "

\* A message: its fixed text and the values the f-string formats into it
\* (the keyword, or the list of table names).
Message(text, args) == [text |-> text, args |-> args]


(***************************************************************************)
(* SQLGenerator._extract_table_names                                       *)
(***************************************************************************)
\* [a-zA-Z_]
IsIdentStart(c) == c \in LowerLetters \cup UpperLetters \cup {"_"}

\* [a-zA-Z0-9_]
IsIdentChar(c) == IsIdentStart(c) \/ c \in Digits

\* The first index at or after i whose character is not whitespace
\* (Len(s) + 1 when there is none): where a greedy \s+ or \s* stops.
RECURSIVE SkipSpace(_, _)
SkipSpace(s, i) ==
    IF i <= Len(s) /\ IsSpace(s[i]) THEN SkipSpace(s, i + 1) ELSE i

\* The first index at or after i whose character is not an identifier
\* character: where the greedy [a-zA-Z0-9_]* stops.
RECURSIVE SkipIdent(_, _)
SkipIdent(s, i) ==
    IF i <= Len(s) /\ IsIdentChar(s[i]) THEN SkipIdent(s, i + 1) ELSE i

\* (?:FROM|JOIN) matches at i, letter case ignored
TableKeywordAt(s, i) == MatchesAt(s, i, K_FROM) \/ MatchesAt(s, i, K_JOIN)

\* re.findall(r'(?:FROM|JOIN)\s+([a-zA-Z_][a-zA-Z0-9_]*)', s, re.IGNORECASE):
\* the captured names of the non-overlapping matches, scanning from i.
RECURSIVE FindAllTables(_, _)
FindAllTables(s, i) ==
    IF i > Len(s) THEN <<>>
    ELSE IF ~TableKeywordAt(s, i) THEN FindAllTables(s, i + 1)
    ELSE LET w == SkipSpace(s, i + 4)
         IN  IF w > i + 4 /\ w <= Len(s) /\ IsIdentStart(s[w])
             THEN LET e == SkipIdent(s, w + 1)
                  IN  <<SubSeq(s, w, e - 1)>> \o FindAllTables(s, e)
             ELSE FindAllTables(s, i + 1)

InSeq(x, seq) == \E k \in 1..Len(seq) : seq[k] = x

\* The loop over the matches: strip the hint, keep the first occurrence.
RECURSIVE CleanMatches(_, _, _)
CleanMatches(matches, k, cleaned_matches) ==
    IF k > Len(matches) THEN cleaned_matches
    ELSE LET clean_match == strip(RemoveAll(matches[k], K_NOLOCK, 1))
         IN  IF clean_match # <<>> /\ ~InSeq(clean_match, cleaned_matches)
             THEN CleanMatches(matches, k + 1, Append(cleaned_matches, clean_match))
             ELSE CleanMatches(matches, k + 1, cleaned_matches)

_extract_table_names(sql) == CleanMatches(FindAllTables(sql, 1), 1, <<>>)

(***************************************************************************)
(* SQLGenerator.validate_sql, one operator per check, in the source's      *)
(* order.  Each takes the QueryValidation built so far and returns it      *)
(* with what the check appends.                                            *)
(***************************************************************************)
AddError(v, m) == [v EXCEPT !.is_valid = FALSE, !.errors = Append(@, m)]

AddWarning(v, m) == [v EXCEPT !.warnings = Append(@, m)]

\* A validator that compares the keyword with the text as written.
KeywordFound_CaseSensitive(sql, keyword) == Contains(sql, keyword)

\* sql_upper = sql_query.upper(); keyword in sql_upper
KeywordFound(sql, keyword) == Contains(upper(sql), keyword)

\* for keyword in dangerous_keywords: if keyword in sql_upper: ...
RECURSIVE CheckDangerousFrom(_, _, _)
CheckDangerousFrom(v, sql, k) ==
    IF k > Len(dangerous_keywords) THEN v
    ELSE LET keyword == dangerous_keywords[k]
         IN  IF KeywordFound(sql, keyword)
             THEN CheckDangerousFrom(
                      AddError(v, Message(MSG_DANGEROUS, <<keyword>>)), sql, k + 1)
             ELSE CheckDangerousFrom(v, sql, k + 1)

CheckDangerous(v, sql) == CheckDangerousFrom(v, sql, 1)

\* A validator that accepts SELECT anywhere in the text.
StartsWithSelect_Anywhere(sql) == Contains(upper(strip(sql)), K_SELECT)

\* sql_query.strip().upper().startswith('SELECT')
StartsWithSelect(sql) == startswith(upper(strip(sql)), K_SELECT)

\* if not sql_query.strip().upper().startswith('SELECT')
CheckSelect(v, sql) ==
    IF ~StartsWithSelect(sql)
    THEN AddError(v, Message(MSG_SELECT_ONLY, <<>>))
    ELSE v

\* if not any(limit_word in sql_upper for limit_word in ['LIMIT', 'TOP'])
CheckLimit(v, sql) ==
    IF ~(Contains(upper(sql), K_LIMIT) \/ Contains(upper(sql), K_TOP))
    THEN AddWarning(v, Message(MSG_NO_LIMIT, <<>>))
    ELSE v

\* invalid_tables = [table for table in used_tables if table not in POC_TABLES]
invalid_tables(sql) ==
    SelectSeq(_extract_table_names(sql), LAMBDA table : ~InSeq(table, POC_TABLES))

CheckTables(v, sql) ==
    IF invalid_tables(sql) # <<>>
    THEN AddError(v, Message(MSG_UNAUTHORIZED, invalid_tables(sql)))
    ELSE v

\* A validator whose missing-hint check rejects the query.
CheckNolock_AsError(v, sql) ==
    IF ~Contains(upper(sql), K_NOLOCK)
    THEN AddError(v, Message(MSG_NOLOCK, <<>>))
    ELSE v

\* if '(NOLOCK)' not in sql_query.upper()
CheckNolock(v, sql) ==
    IF ~Contains(upper(sql), K_NOLOCK)
    THEN AddWarning(v, Message(MSG_NOLOCK, <<>>))
    ELSE v

\* if 'DATE' in sql_upper and not any(pattern in sql_query for pattern in [...])
CheckDate(v, sql) ==
    IF /\ Contains(upper(sql), K_DATE)
       /\ ~(\/ Contains(sql, K_YYYYMMDD)
            \/ Contains(sql, K_BETWEEN)
            \/ Contains(sql, K_EQ))
    THEN AddWarning(v, Message(MSG_DATE, <<>>))
    ELSE v

\* if sql_query.count('(') != sql_query.count(')')
CheckParens(v, sql) ==
    IF count(sql, "(") # count(sql, ")")
    THEN AddWarning(v, Message(MSG_PARENS, <<>>))
    ELSE v

\* re.search(r";\s*KEYWORD", sql, re.IGNORECASE)
SearchSemicolonThen(sql, keyword) ==
    \E i \in 1..Len(sql) :
        /\ sql[i] = ";"
        /\ MatchesAt(sql, SkipSpace(sql, i + 1), keyword)

\* re.search(r"OPEN.*CLOSE", sql, re.IGNORECASE): "." matches no line break
SearchSpan(sql, open, close) ==
    \E i \in 1..Len(sql) :
        /\ MatchesAt(sql, i, open)
        /\ \E j \in (i + Len(open))..Len(sql) :
              /\ MatchesAt(sql, j, close)
              /\ NoNewline(sql, i + Len(open), j - 1)

\* re.search(r"LITERAL", sql, re.IGNORECASE)
SearchLiteral(sql, literal) == \E i \in 1..Len(sql) : MatchesAt(sql, i, literal)

\* injection_patterns, in the order of the source's list
injection_patterns ==
    << ";\\s*DROP", ";\\s*DELETE", "--", "/\\*.*\\*/", "UNION.*SELECT",
       "xp_cmdshell", "sp_executesql" >>

\* re.search(pattern, sql_query, re.IGNORECASE) for the patterns of the list
re_search(pattern, sql) ==
    CASE pattern = ";\\s*DROP" -> SearchSemicolonThen(sql, K_DROP)
      [] pattern = ";\\s*DELETE" -> SearchSemicolonThen(sql, K_DELETE)
      [] pattern = "--" -> SearchLiteral(sql, K_DASHES)
      [] pattern = "/\\*.*\\*/" -> SearchSpan(sql, K_OPEN_COMMENT, K_CLOSE_COMMENT)
      [] pattern = "UNION.*SELECT" -> SearchSpan(sql, K_UNION, K_SELECT)
      [] pattern = "xp_cmdshell" -> SearchLiteral(sql, K_XP_CMDSHELL)
      [] pattern = "sp_executesql" -> SearchLiteral(sql, K_SP_EXECUTESQL)

\* for pattern in injection_patterns: if re.search(...): ...; break
RECURSIVE CheckInjectionFrom(_, _, _)
CheckInjectionFrom(v, sql, k) ==
    IF k > Len(injection_patterns) THEN v
    ELSE IF re_search(injection_patterns[k], sql)
         THEN AddError(v, Message(MSG_INJECTION, <<>>))
         ELSE CheckInjectionFrom(v, sql, k + 1)

CheckInjection(v, sql) == CheckInjectionFrom(v, sql, 1)

\* QueryValidation(is_valid=True, errors=[], warnings=[])
NewValidation == [is_valid |-> TRUE, errors |-> <<>>, warnings |-> <<>>]

\* The body of the try block.  No statement of it raises for a str argument,
\* so the except branch is not reached.
validate_sql(sql) ==
    LET v1 == CheckDangerous(NewValidation, sql)
        v2 == CheckSelect(v1, sql)
        v3 == CheckLimit(v2, sql)
        v4 == CheckTables(v3, sql)
        v5 == CheckNolock(v4, sql)
        v6 == CheckDate(v5, sql)
        v7 == CheckParens(v6, sql)
    IN  CheckInjection(v7, sql)

\* An except branch that marks the result invalid and records nothing.
Raised_Silent(v) == [v EXCEPT !.is_valid = FALSE]

\* except Exception as e: validation_result.is_valid = False;
\*     validation_result.errors.append(f"Validation error: {str(e)}")
Raised(v) == AddError(v, Message(MSG_VALIDATION_ERROR, <<>>))

\* The checks of the try block whose statements can raise, numbered in the
\* source's order: the first, at sql_query.upper() for an argument that is
\* not a str, and the fourth, at settings.POC_TABLES, which is evaluated for
\* a query that names a table.
Checks == {1, 4}

CanRaise(sql, k) == k = 1 \/ (k = 4 /\ _extract_table_names(sql) # <<>>)

\* validation_result as the try block has built it when check k begins.
PartialResults(sql) ==
    LET v1 == CheckDangerous(NewValidation, sql)
        v2 == CheckSelect(v1, sql)
        v3 == CheckLimit(v2, sql)
        v4 == CheckTables(v3, sql)
        v5 == CheckNolock(v4, sql)
        v6 == CheckDate(v5, sql)
        v7 == CheckParens(v6, sql)
    IN  <<NewValidation, v1, v2, v3, v4, v5, v6, v7>>

(***************************************************************************)
(* The validator's inputs: texts built from a vocabulary that holds every  *)
(* construct the checks look for, in several letter cases.                 *)
(***************************************************************************)
P_select_o == <<"S", "E", "L", "E", "C", "T", " ", "*", " ", "F", "R", "O", "M", " ", "o">>
P_select_lower == <<"s", "e", "l", "e", "c", "t", " ", "a", " ", "f", "r", "o", "m", " ", "r">>
P_select_top == <<" ", "S", "E", "L", "E", "C", "T", " ", "T", "O", "P", " ", "5", " ", "*", " ", "F", "R", "O", "M", " ", "s", "a", " ", "(", "N", "O", "L", "O", "C", "K", ")">>
P_join_rr == <<" ", "J", "O", "I", "N", " ", "r", "r">>
P_comma_x == <<",", " ", "x">>
P_join_quoted == <<" ", "J", "O", "I", "N", " ", "\"", "x", "\"">>
P_from_x == <<" ", "F", "R", "O", "M", " ", "x">>
P_join_upper == <<" ", "j", "o", "i", "n", " ", "O">>
P_drop == <<"D", "R", "O", "P", " ", "T", "A", "B", "L", "E", " ", "x">>
P_delete == <<";", " ", "d", "e", "l", "e", "t", "e">>
P_update == <<" ", "u", "p", "d", "a", "t", "e", "d", "_", "a", "t">>
P_insert == <<" ", "I", "n", "s", "e", "r", "t">>
P_truncate == <<" ", "T", "R", "U", "N", "C", "A", "T", "E">>
P_alter == <<" ", "a", "l", "t", "e", "r">>
P_create == <<" ", "C", "r", "e", "a", "t", "e">>
P_comment == <<" ", "-", "-">>
P_block_open == <<" ", "/", "*">>
P_block_close == <<"*", "/">>
P_newline == <<"\n">>
P_union == <<" ", "U", "N", "I", "O", "N", " ", "S", "E", "L", "E", "C", "T", " ", "1">>
P_xp == <<" ", "X", "P", "_", "c", "m", "d", "s", "h", "e", "l", "l">>
P_sp == <<" ", "s", "p", "_", "e", "x", "e", "c", "u", "t", "e", "s", "q", "l">>
P_date == <<" ", "W", "H", "E", "R", "E", " ", "D", "A", "T", "E", " ", ">", " ", "1">>
P_eq == <<" ", "=", " ", "2", "0", "2", "5", "0", "8", "2", "0">>
P_paren == <<" ", "(">>
P_semi == <<";">>
P_union_lines == <<" ", "U", "N", "I", "O", "N", "\n", "S", "E", "L", "E", "C", "T", " ", "2">>
P_block_lines == <<" ", "/", "*", "\n", "*", "/">>

Pieces ==
    { P_select_o, P_select_lower, P_select_top, P_join_rr, P_comma_x,
      P_join_quoted, P_from_x, P_join_upper, P_drop, P_delete, P_update,
      P_insert, P_truncate, P_alter, P_create, P_comment, P_block_open,
      P_block_close, P_newline, P_union, P_xp, P_sp, P_date, P_eq,
      P_paren, P_semi, P_union_lines, P_block_lines }

\* The concatenations of exactly n pieces.
RECURSIVE TextsOf(_)
TextsOf(n) ==
    IF n = 0 THEN {<<>>}
    ELSE {t \o p : t \in TextsOf(n - 1), p \in Pieces}

Texts == UNION {TextsOf(n) : n \in 0..MaxPieces}

(***************************************************************************)
(* The validation gate of /query/sql (main.py, lines 157-163) applied to   *)
(* one candidate text: validate_sql, then HTTP 400 with the joined errors  *)
(* or the way on to the cache and the executor.                            *)
(***************************************************************************)
MSG_INVALID == "Generated SQL is invalid: "
MSG_SEPARATOR == "; "

\* '; '.join(errors): the errors with the separator between neighbours
RECURSIVE Join(_, _)
Join(errors, sep) ==
    IF Len(errors) = 0 THEN <<>>
    ELSE IF Len(errors) = 1 THEN <<errors[1]>>
    ELSE <<errors[1], sep>> \o Join(Tail(errors), sep)

\* An endpoint that reports the first violation only.
RejectionDetail_FirstOnly(validation) ==
    <<Message(MSG_INVALID, <<>>)>> \o
        (IF validation.errors = <<>> THEN <<>> ELSE <<validation.errors[1]>>)

\* f"Generated SQL is invalid: {'; '.join(validation.errors)}"
RejectionDetail(validation) ==
    <<Message(MSG_INVALID, <<>>)>> \o
        Join(validation.errors, Message(MSG_SEPARATOR, <<>>))

(***************************************************************************)
(* hashlib.md5 (RFC 1321), computed on 32-bit words held as pairs          *)
(* <<high 16 bits, low 16 bits>>, and str.encode() for ASCII texts.        *)
(***************************************************************************)
\* The printable ASCII characters, in code order from 32 (space) to 126 (~).
PrintableASCII ==
    << " ", "!", "\"", "#", "$", "%", "&", "'", "(", ")", "*", "+",
       ",", "-", ".", "/", "0", "1", "2", "3", "4", "5", "6", "7",
       "8", "9", ":", ";", "<", "=", ">", "?", "@", "A", "B", "C",
       "D", "E", "F", "G", "H", "I", "J", "K", "L", "M", "N", "O",
       "P", "Q", "R", "S", "T", "U", "V", "W", "X", "Y", "Z", "[",
       "<backslash>", "]", "^", "_", "<backtick>", "a", "b", "c", "d", "e", "f", "g",
       "h", "i", "j", "k", "l", "m", "n", "o", "p", "q", "r", "s",
       "t", "u", "v", "w", "x", "y", "z", "{", "|", "}", "~" >>

\* ord(c) of a character that str.encode() turns into one byte
Ord(c) ==
    IF c = "\n" THEN 10
    ELSE IF c = "\t" THEN 9
    ELSE 31 + (CHOOSE i \in 1..Len(PrintableASCII) : PrintableASCII[i] = c)

\* str.encode(): the UTF-8 bytes of an ASCII text
encode(s) == [i \in 1..Len(s) |-> Ord(s[i])]

(* A 32-bit word is a pair <<high 16 bits, low 16 bits>>. *)
\* floor(abs(sin(i)) * 2^32), i = 1..64 (RFC 1321)
MD5_K ==
    << <<55146, 42104>>, <<59591, 46934>>, <<9248, 28891>>, <<49597, 52974>>,
       <<62844, 4015>>, <<18311, 50730>>, <<43056, 17939>>, <<64838, 38145>>,
       <<27008, 39128>>, <<35652, 63407>>, <<65535, 23473>>, <<35164, 55230>>,
       <<27536, 4386>>, <<64920, 29075>>, <<42617, 17294>>, <<18868, 2081>>,
       <<63006, 9570>>, <<49216, 45888>>, <<9822, 23121>>, <<59830, 51114>>,
       <<54831, 4189>>, <<580, 5203>>, <<55457, 59009>>, <<59347, 64456>>,
       <<8673, 52710>>, <<49975, 2006>>, <<62677, 3463>>, <<17754, 5357>>,
       <<43491, 59653>>, <<64751, 41976>>, <<26479, 729>>, <<36138, 19594>>,
       <<65530, 14658>>, <<34673, 63105>>, <<28061, 24866>>, <<64997, 14348>>,
       <<42174, 59972>>, <<19422, 53161>>, <<63163, 19296>>, <<48831, 48240>>,
       <<10395, 32454>>, <<60065, 10234>>, <<54511, 12421>>, <<1160, 7429>>,
       <<55764, 53305>>, <<59099, 39397>>, <<8098, 31992>>, <<50348, 22117>>,
       <<62505, 8772>>, <<17194, 65431>>, <<43924, 9127>>, <<64659, 41017>>,
       <<25947, 22979>>, <<36620, 52370>>, <<65519, 62589>>, <<34180, 24017>>,
       <<28584, 32335>>, <<65068, 59104>>, <<41729, 17172>>, <<19976, 4513>>,
       <<63315, 32386>>, <<48442, 62005>>, <<10967, 53947>>, <<60294, 54161>> >>

\* the per-round left-rotation amounts (RFC 1321)
MD5_S ==
    << 7, 12, 17, 22, 7, 12, 17, 22, 7, 12, 17, 22, 7, 12, 17, 22,
       5, 9, 14, 20, 5, 9, 14, 20, 5, 9, 14, 20, 5, 9, 14, 20,
       4, 11, 16, 23, 4, 11, 16, 23, 4, 11, 16, 23, 4, 11, 16, 23,
       6, 10, 15, 21, 6, 10, 15, 21, 6, 10, 15, 21, 6, 10, 15, 21 >>

\* the initial chaining value A, B, C, D (RFC 1321)
MD5_IV == << <<26437, 8961>>, <<61389, 43913>>, <<39098, 56574>>, <<4146, 21622>> >>

Pow2(n) == 2 ^ n

\* x + y mod 2^32
Add32(x, y) ==
    LET lo == x[2] + y[2]
        hi == x[1] + y[1] + (lo \div 65536)
    IN  <<hi % 65536, lo % 65536>>

\* x rotated left by n bits, 0 < n < 32
RotL32(x, n) ==
    LET h == IF n >= 16 THEN x[2] ELSE x[1]
        l == IF n >= 16 THEN x[1] ELSE x[2]
        m == n % 16
    IN  IF m = 0 THEN <<h, l>>
        ELSE << ((h * Pow2(m)) % 65536) + (l \div Pow2(16 - m)),
                ((l * Pow2(m)) % 65536) + (h \div Pow2(16 - m)) >>

\* One bit of the round function of round group g (0..3) on bits x, y, z.
RoundBit(g, x, y, z) ==
    CASE g = 0 -> (x * y) + ((1 - x) * z)
      [] g = 1 -> (x * z) + (y * (1 - z))
      [] g = 2 -> (x + y + z) % 2
      [] g = 3 -> (y + (IF x = 1 \/ z = 0 THEN 1 ELSE 0)) % 2

\* The round function on n-bit numbers, bit by bit.
RECURSIVE Round16(_, _, _, _, _)
Round16(g, x, y, z, n) ==
    IF n = 0 THEN 0
    ELSE RoundBit(g, x % 2, y % 2, z % 2)
         + 2 * Round16(g, x \div 2, y \div 2, z \div 2, n - 1)

Round32(g, x, y, z) ==
    <<Round16(g, x[1], y[1], z[1], 16), Round16(g, x[2], y[2], z[2], 16)>>

\* The index of the message word round i (0..63) uses.
WordIndex(i) ==
    CASE i \div 16 = 0 -> i
      [] i \div 16 = 1 -> (5 * i + 1) % 16
      [] i \div 16 = 2 -> (3 * i + 5) % 16
      [] i \div 16 = 3 -> (7 * i) % 16

\* The 64 rounds on one block M (16 words), from state st = <<A, B, C, D>>.
RECURSIVE Rounds(_, _, _)
Rounds(st, M, i) ==
    IF i = 64 \/ Len(st) # 4 THEN st   \* (the test of Len(st) has TLC evaluate st here)
    ELSE LET f == Round32(i \div 16, st[2], st[3], st[4])
             sum == Add32(Add32(st[1], f), Add32(MD5_K[i + 1], M[WordIndex(i) + 1]))
         IN  Rounds(<<st[4], Add32(st[2], RotL32(sum, MD5_S[i + 1])), st[2], st[3]>>,
                    M, i + 1)

\* The message padded to a multiple of 64 bytes: 0x80, zeros, the bit length
\* as 8 little-endian bytes.
Pad(bytes) ==
    LET n == Len(bytes)
        zeros == (119 - (n % 64)) % 64
        bits == 8 * n
    IN  bytes \o <<128>> \o [i \in 1..zeros |-> 0]
        \o <<bits % 256, (bits \div 256) % 256, (bits \div 65536) % 256, 0, 0, 0, 0, 0>>

\* Word w (0..15) of block b (0..) of the padded message, little-endian.
BlockWord(p, b, w) ==
    LET o == (64 * b) + (4 * w)
    IN  <<(p[o + 4] * 256) + p[o + 3], (p[o + 2] * 256) + p[o + 1]>>

RECURSIVE Blocks(_, _, _)
Blocks(st, p, b) ==
    IF 64 * b >= Len(p) THEN st
    ELSE LET M == [w \in 1..16 |-> BlockWord(p, b, w - 1)]
             r == Rounds(st, M, 0)
         IN  Blocks(<<Add32(st[1], r[1]), Add32(st[2], r[2]),
                      Add32(st[3], r[3]), Add32(st[4], r[4])>>, p, b + 1)

HexDigits == <<"0", "1", "2", "3", "4", "5", "6", "7", "8", "9", "a", "b", "c", "d", "e", "f">>

HexByte(b) == <<HexDigits[(b \div 16) + 1], HexDigits[(b % 16) + 1]>>

\* The four bytes of a word, little-endian, in hexadecimal.
HexWord(x) ==
    HexByte(x[2] % 256) \o HexByte(x[2] \div 256) \o HexByte(x[1] % 256) \o HexByte(x[1] \div 256)

\* hashlib.md5(bytes).hexdigest()
md5_hexdigest(bytes) ==
    LET d == Blocks(MD5_IV, Pad(bytes), 0)
    IN  HexWord(d[1]) \o HexWord(d[2]) \o HexWord(d[3]) \o HexWord(d[4])


(***************************************************************************)
(* QueryCache (database.py).  max_size and ttl_seconds are the arguments   *)
(* of the constructor; the service passes 50 and 300, the model small      *)
(* values, so that overflow and expiry happen within a few operations.     *)
(***************************************************************************)
max_size == 2
ttl_seconds == 1
\* time.time() runs from 0 to MaxTime, in whole seconds
MaxTime == 2
\* the number of get, set and clear calls of a behaviour
MaxOps == 4

\* The texts the cache is called with: two queries, and two texts of 72
\* characters that differ in their 22nd character.
Q_1 == <<"S", "E", "L", "E", "C", "T", " ", "1">>
Q_2 == <<"S", "E", "L", "E", "C", "T", " ", "2">>
Q_A ==
    << "T", "E", "X", "T", "C", "O", "L", "L", "B", "Y", "f", "G",
       "i", "J", "U", "E", "T", "H", "Q", "4", "h", "A", "c", "K",
       "S", "M", "d", "5", "z", "Y", "p", "g", "q", "f", "1", "Y",
       "R", "D", "h", "k", "m", "x", "H", "k", "h", "P", "W", "p",
       "t", "r", "k", "o", "y", "z", "2", "8", "w", "n", "I", "9",
       "V", "0", "a", "H", "e", "A", "u", "a", "K", "n", "a", "k" >>
Q_B ==
    << "T", "E", "X", "T", "C", "O", "L", "L", "B", "Y", "f", "G",
       "i", "J", "U", "E", "T", "H", "Q", "4", "h", "E", "c", "K",
       "S", "M", "d", "5", "z", "Y", "p", "g", "q", "f", "1", "Y",
       "R", "D", "h", "k", "m", "x", "H", "k", "h", "P", "W", "p",
       "t", "r", "k", "o", "y", "z", "2", "8", "w", "n", "I", "9",
       "V", "0", "a", "H", "e", "A", "u", "a", "K", "n", "a", "k" >>

\* A candidate the validator rejects.
Q_drop == P_drop

\* The texts the cache is called with.
QueryTexts == {Q_1, Q_2, Q_A, Q_B, Q_drop}

\* Python's None
None == [none |-> TRUE]

\* DatabaseExecutionResult of a successful execution
Rows(n) == [success |-> TRUE, results |-> n, row_count |-> n, error |-> None]

\* The results an execution of a query may give, now or later.
Results == {Rows(1), Rows(2)}

\* query_hash = hashlib.md5(sql_query.encode()).hexdigest(); params is the
\* text of str(params), <<>> for a call without params (or with an empty list)
_generate_key(sql, params) ==
    IF params # <<>>
    THEN md5_hexdigest(encode(sql)) \o <<"_">> \o md5_hexdigest(encode(params))
    ELSE md5_hexdigest(encode(sql))

\* key = self._generate_key(sql_query, params), for each text of the model:
\* TLC computes the table once.  Every call of the service passes no params.
CacheKey == [q \in QueryTexts |-> _generate_key(q, <<>>)]

\* len(self._cache) >= self.max_size, with an off-by-one
IsFull_OffByOne(size) == size > max_size

\* len(self._cache) >= self.max_size
IsFull(size) == size >= max_size

\* An eviction that picks the newest entry.
oldest_key_Newest(timestamps) ==
    LET i == CHOOSE i \in 1..Len(timestamps) :
                 \A j \in 1..Len(timestamps) : timestamps[j].time <= timestamps[i].time
    IN  timestamps[i].key

\* min(self._timestamps.keys(), key=lambda k: self._timestamps[k]): the first
\* key, in the dict's order, among those of the smallest timestamp
oldest_key(timestamps) ==
    LET i == CHOOSE i \in 1..Len(timestamps) :
                 /\ \A j \in 1..Len(timestamps) : timestamps[i].time <= timestamps[j].time
                 /\ \A j \in 1..(i - 1) : timestamps[j].time > timestamps[i].time
    IN  timestamps[i].key

\* An entry that is still served at the age of ttl_seconds.
IsFresh_Inclusive(age) == age <= ttl_seconds

\* time.time() - self._timestamps[key] < self.ttl
IsFresh(age) == age < ttl_seconds

\* self._timestamps[key]
TimestampOf(timestamps, key) ==
    LET i == CHOOSE i \in 1..Len(timestamps) : timestamps[i].key = key
    IN  timestamps[i].time

\* del d[key], on the function and on the ordered dict
DelCache(cache, key) == [k \in (DOMAIN cache) \ {key} |-> cache[k]]

DelTimestamp(timestamps, key) == SelectSeq(timestamps, LAMBDA e : e.key # key)

\* d[key] = value: a present key keeps its place, a new key goes last
PutCache(cache, key, value) ==
    [k \in (DOMAIN cache) \cup {key} |-> IF k = key THEN value ELSE cache[k]]

PutTimestamp(timestamps, key, time) ==
    IF \E i \in 1..Len(timestamps) : timestamps[i].key = key
    THEN [i \in 1..Len(timestamps) |->
             IF timestamps[i].key = key THEN [key |-> key, time |-> time]
             ELSE timestamps[i]]
    ELSE Append(timestamps, [key |-> key, time |-> time])

\* The texts whose key is the given key.
TextsOfKey(key) == {q \in QueryTexts : CacheKey[q] = key}

\* History: the entries of these texts are gone.
Forget(history, texts) == [q \in QueryTexts |-> IF q \in texts THEN None ELSE history[q]]

\* QueryCache.get(sql_query): the returned value is last'.ret
get(q) ==
    LET key == CacheKey[q]
        present == key \in DOMAIN _cache
        fresh == present /\ IsFresh(now - TimestampOf(_timestamps, key))
    IN  /\ _total_requests' = _total_requests + 1
        /\ nops' = nops + 1
        /\ IF fresh
           THEN /\ _hits' = _hits + 1
                /\ last' = [op |-> "get", sql_query |-> q, ret |-> _cache[key],
                            path |-> "hit", evicted |-> <<>>]
                /\ distinct_run' =
                      IF distinct_run.pure /\ distinct_run.keys # <<>>
                         /\ distinct_run.keys[1] = key
                      THEN [distinct_run EXCEPT !.read = TRUE]
                      ELSE distinct_run
                /\ UNCHANGED <<_cache, _timestamps, _misses, set_results>>
           ELSE IF present
           THEN /\ _cache' = DelCache(_cache, key)
                /\ _timestamps' = DelTimestamp(_timestamps, key)
                /\ _misses' = _misses + 1
                /\ last' = [op |-> "get", sql_query |-> q, ret |-> None,
                            path |-> "expired", evicted |-> <<>>]
                /\ set_results' = Forget(set_results, TextsOfKey(key))
                /\ distinct_run' = [pure |-> FALSE, keys |-> <<>>, read |-> FALSE]
                /\ UNCHANGED _hits
           ELSE /\ _misses' = _misses + 1
                /\ last' = [op |-> "get", sql_query |-> q, ret |-> None,
                            path |-> "absent", evicted |-> <<>>]
                /\ UNCHANGED <<_cache, _timestamps, _hits, set_results, distinct_run>>
        /\ UNCHANGED <<now, ever_set>>

\* QueryCache.set(sql_query, result)
set(q, result) ==
    LET key == CacheKey[q]
        full == IsFull(Cardinality(DOMAIN _cache))
        victim == oldest_key(_timestamps)
        cache1 == IF full THEN DelCache(_cache, victim) ELSE _cache
        timestamps1 == IF full THEN DelTimestamp(_timestamps, victim) ELSE _timestamps
    IN  /\ _cache' = PutCache(cache1, key, result)
        /\ _timestamps' = PutTimestamp(timestamps1, key, now)
        /\ nops' = nops + 1
        /\ last' = [op |-> "set", sql_query |-> q, ret |-> None,
                    path |-> IF full THEN "evicted" ELSE "stored",
                    evicted |-> IF full THEN victim ELSE <<>>]
        /\ ever_set' = ever_set \cup {q}
        /\ set_results' =
              [(IF full THEN Forget(set_results, TextsOfKey(victim)) ELSE set_results)
                  EXCEPT ![q] = [result |-> result, time |-> now]]
        /\ distinct_run' =
              IF distinct_run.pure /\ ~InSeq(key, distinct_run.keys)
              THEN [distinct_run EXCEPT !.keys = Append(@, key)]
              ELSE [pure |-> FALSE, keys |-> <<>>, read |-> FALSE]
        /\ UNCHANGED <<_hits, _misses, _total_requests, now>>

\* QueryCache.clear(): the counters stay
clear ==
    /\ _cache' = <<>>
    /\ _timestamps' = <<>>
    /\ UNCHANGED <<_hits, _misses, _total_requests>>
    /\ nops' = nops + 1
    /\ last' = [op |-> "clear", sql_query |-> <<>>, ret |-> None,
                path |-> "cleared", evicted |-> <<>>]
    /\ set_results' = [q \in QueryTexts |-> None]
    /\ distinct_run' = [pure |-> TRUE, keys |-> <<>>, read |-> FALSE]
    /\ UNCHANGED <<now, ever_set>>

\* QueryCache.__init__
QueryCache_init ==
    /\ _cache = <<>>
    /\ _timestamps = <<>>
    /\ _hits = 0
    /\ _misses = 0
    /\ _total_requests = 0
    /\ now = 0
    /\ nops = 0
    /\ last = [op |-> "init", sql_query |-> <<>>, ret |-> None,
               path |-> "init", evicted |-> <<>>]
    /\ ever_set = {}
    /\ set_results = [q \in QueryTexts |-> None]
    /\ distinct_run = [pure |-> TRUE, keys |-> <<>>, read |-> FALSE]

\* A second passes on the clock of time.time().
Tick ==
    /\ now < MaxTime
    /\ now' = now + 1
    /\ UNCHANGED <<_cache, _timestamps, _hits, _misses, _total_requests, last, nops,
                   ever_set, set_results, distinct_run>>

(***************************************************************************)
(* POST /query/sql (main.py, generate_sql_from_question).  A handler runs  *)
(* on the one event loop of the process: between two awaits that suspend   *)
(* it no other handler runs.  It is suspended while the embedding and the  *)
(* completion are awaited; db_manager.execute_query is awaited too, but    *)
(* its drivers block instead of suspending, so from the completion to the  *)
(* response the handler keeps the loop.                                    *)
(***************************************************************************)
\* two requests, which may overlap
RequestIds == {1, 2}

\* sql_result['sql_query'], as _parse_sql_response may return it
Candidates == {<<>>, Q_1, Q_2, Q_drop}

\* DatabaseExecutionResult of a failed execution
Failure == [success |-> FALSE, results |-> None, row_count |-> 0, error |-> "error"]

NoResponse == [status |-> 0, detail |-> <<>>, executed |-> FALSE,
               results |-> None, row_count |-> None, error |-> None]

\* raise HTTPException(status_code=.., detail=..)
HTTPException(status, detail) == [NoResponse EXCEPT !.status = status, !.detail = detail]

\* return SQLResponse(.., executed=executed, results=results, row_count=row_count, error=error)
SQLResponse(executed, execution_result) ==
    [status |-> 200, detail |-> <<>>, executed |-> executed,
     results |-> IF executed /\ execution_result.success
                 THEN execution_result.results ELSE None,
     row_count |-> IF executed /\ execution_result.success
                   THEN execution_result.row_count ELSE None,
     error |-> IF executed /\ ~execution_result.success
               THEN execution_result.error ELSE None]

MSG_NO_TABLES == "No relevant tables found for your question"
MSG_NO_SQL == "Failed to generate SQL query"
MSG_PROCESSING_FAILED == "Query processing failed: "

\* steps is the history of the pipeline steps the request began, failed the
\* step whose call raised.
NewRequest == [pc |-> "new", execute_query |-> FALSE, sql_query |-> <<>>,
               validation |-> NewValidation, response |-> NoResponse,
               steps |-> <<>>, failed |-> "none"]

\* The response after the steps done on the way to it.
Respond(r, done, response) ==
    /\ requests' = [requests EXCEPT ![r].pc = "done", ![r].response = response,
                                    ![r].steps = @ \o done]
    /\ running' = 0

\* A failure answered with a result of an earlier request.
ProcessingFailed_Stale == SQLResponse(TRUE, Rows(1))

\* except Exception as e: raise HTTPException(status_code=500,
\*     detail=f"Query processing failed: {str(e)}")
ProcessingFailed == HTTPException(500, <<Message(MSG_PROCESSING_FAILED, <<>>)>>)

\* A gate that lets every candidate pass.
IsRejected_Never(validation) == FALSE

\* if not validation.is_valid
IsRejected(validation) == ~validation.is_valid

\* The request arrives; the handler awaits the embedding of the question.
Receive(r, execute_query) ==
    /\ running = 0
    /\ requests[r].pc = "new"
    /\ requests' = [requests EXCEPT ![r].pc = "embedding",
                                    ![r].execute_query = execute_query,
                                    ![r].steps = <<"embedding">>]
    /\ UNCHANGED <<running, valid_sql, executed_sql, cached_sql>>
    /\ UNCHANGED <<_cache, _timestamps, _hits, _misses, _total_requests, now, last, nops,
                   ever_set, set_results, distinct_run>>

\* find_relevant_tables: the embedding call raises, or the embedding arrives
\* and the index is searched; the search raises, returns none or returns
\* tables.  With tables the handler calls generate_sql and awaits the
\* completion.
Retrieved(r, outcome) ==
    /\ running = 0
    /\ requests[r].pc = "embedding"
    /\ CASE outcome = "tables" ->
              requests' = [requests EXCEPT ![r].pc = "completion",
                  ![r].steps = @ \o <<"search", "generation">>]
         [] outcome = "none" ->
              requests' = [requests EXCEPT ![r].pc = "done",
                  ![r].steps = @ \o <<"search">>,
                  ![r].response = HTTPException(404, <<Message(MSG_NO_TABLES, <<>>)>>)]
         [] outcome = "embedding_raises" ->
              requests' = [requests EXCEPT ![r].pc = "done",
                  ![r].failed = "embedding",
                  ![r].response = ProcessingFailed]
         [] outcome = "search_raises" ->
              requests' = [requests EXCEPT ![r].pc = "done",
                  ![r].steps = @ \o <<"search">>,
                  ![r].failed = "search",
                  ![r].response = ProcessingFailed]
    /\ UNCHANGED <<running, valid_sql, executed_sql, cached_sql>>
    /\ UNCHANGED <<_cache, _timestamps, _hits, _misses, _total_requests, now, last, nops,
                   ever_set, set_results, distinct_run>>

\* The completion arrives and is parsed, or generate_sql raises; an empty
\* sql_query ends the request.  From here on the handler keeps the loop.
Generated(r, outcome, candidate) ==
    /\ running = 0
    /\ requests[r].pc = "completion"
    /\ CASE outcome = "raises" ->
              /\ candidate = <<>>
              /\ requests' = [requests EXCEPT ![r].pc = "done",
                                              ![r].failed = "generation",
                                              ![r].response = ProcessingFailed]
              /\ running' = 0
         [] outcome = "parsed" /\ candidate = <<>> ->
              Respond(r, <<"parsing">>, HTTPException(500, <<Message(MSG_NO_SQL, <<>>)>>))
         [] outcome = "parsed" /\ candidate # <<>> ->
              /\ requests' = [requests EXCEPT ![r].pc = "validate",
                                              ![r].sql_query = candidate,
                                              ![r].steps = @ \o <<"parsing">>]
              /\ running' = r
    /\ UNCHANGED <<valid_sql, executed_sql, cached_sql>>
    /\ UNCHANGED <<_cache, _timestamps, _hits, _misses, _total_requests, now, last, nops,
                   ever_set, set_results, distinct_run>>

\* validation = sql_generator.validate_sql(sql_result['sql_query']), the 400
\* of a rejected candidate, and the response of a request with execute_query false
ValidateCandidate(r) ==
    /\ running = r
    /\ requests[r].pc = "validate"
    /\ LET validation == validate_sql(requests[r].sql_query)
       IN  /\ valid_sql' = IF validation.is_valid
                           THEN valid_sql \cup {requests[r].sql_query} ELSE valid_sql
           /\ IF IsRejected(validation)
              THEN /\ requests' = [requests EXCEPT ![r].pc = "done",
                                       ![r].validation = validation,
                                       ![r].steps = @ \o <<"validation">>,
                                       ![r].response =
                                           HTTPException(400, RejectionDetail(validation))]
                   /\ running' = 0
              ELSE IF ~requests[r].execute_query
              THEN /\ requests' = [requests EXCEPT ![r].pc = "done",
                                       ![r].validation = validation,
                                       ![r].steps = @ \o <<"validation">>,
                                       ![r].response = SQLResponse(FALSE, Failure)]
                   /\ running' = 0
              ELSE /\ requests' = [requests EXCEPT ![r].pc = "cache_get",
                                       ![r].validation = validation,
                                       ![r].steps = @ \o <<"validation">>]
                   /\ UNCHANGED running
    /\ UNCHANGED <<executed_sql, cached_sql>>
    /\ UNCHANGED <<_cache, _timestamps, _hits, _misses, _total_requests, now, last, nops,
                   ever_set, set_results, distinct_run>>

\* A handler that executes the query whatever the cache returned.
CacheGet_AlwaysExecutes(r) ==
    /\ running = r
    /\ requests[r].pc = "cache_get"
    /\ get(requests[r].sql_query)
    /\ cached_sql' = cached_sql \cup {requests[r].sql_query}
    /\ requests' = [requests EXCEPT ![r].pc = "execute",
                                    ![r].steps = @ \o <<"cache_get">>]
    /\ UNCHANGED <<running, valid_sql, executed_sql>>

\* cached_result = query_cache.get(sql_result['sql_query']); a cached result
\* is the execution result of the response
CacheGet(r) ==
    /\ running = r
    /\ requests[r].pc = "cache_get"
    /\ get(requests[r].sql_query)
    /\ cached_sql' = cached_sql \cup {requests[r].sql_query}
    /\ IF last'.ret # None
       THEN Respond(r, <<"cache_get">>, SQLResponse(TRUE, last'.ret))
       ELSE /\ requests' = [requests EXCEPT ![r].pc = "execute",
                                            ![r].steps = @ \o <<"cache_get">>]
            /\ UNCHANGED running
    /\ UNCHANGED <<valid_sql, executed_sql>>

\* A handler that caches the result of every execution.
ExecuteQuery_CachesAll(r, execution_result) ==
    /\ running = r
    /\ requests[r].pc = "execute"
    /\ executed_sql' = executed_sql \cup {requests[r].sql_query}
    /\ set(requests[r].sql_query, execution_result)
    /\ cached_sql' = cached_sql \cup {requests[r].sql_query}
    /\ Respond(r, <<"execution", "cache_set">>, SQLResponse(TRUE, execution_result))
    /\ UNCHANGED valid_sql

\* execution_result = await db_manager.execute_query(sql_result['sql_query']),
\* and query_cache.set of a successful result
ExecuteQuery(r, execution_result) ==
    /\ running = r
    /\ requests[r].pc = "execute"
    /\ executed_sql' = executed_sql \cup {requests[r].sql_query}
    /\ IF execution_result.success
       THEN /\ set(requests[r].sql_query, execution_result)
            /\ cached_sql' = cached_sql \cup {requests[r].sql_query}
       ELSE /\ UNCHANGED cached_sql
            /\ UNCHANGED <<_cache, _timestamps, _hits, _misses, _total_requests, now,
                           last, nops, ever_set, set_results, distinct_run>>
    /\ Respond(r, IF execution_result.success THEN <<"execution", "cache_set">>
                  ELSE <<"execution">>,
               SQLResponse(TRUE, execution_result))
    /\ UNCHANGED valid_sql

\* DELETE /cache/clear
clear_cache ==
    /\ running = 0
    /\ nops < MaxOps
    /\ clear
    /\ UNCHANGED <<requests, running, valid_sql, executed_sql, cached_sql>>

(***************************************************************************)
(* The specifications.                                                     *)
(***************************************************************************)
vvars == <<sql_query, validation_result, vpc, http_detail>>

cvars == <<_cache, _timestamps, _hits, _misses, _total_requests, now, last, nops,
           ever_set, set_results, distinct_run>>

pvars == <<requests, running, valid_sql, executed_sql, cached_sql>>

\* The variables of the components modelled on their own.
gvars == <<response_text, sql_result, gpc>>

\* The variables of the components other than the cache calls.
dvars == <<hash_order, doc_input, schema_text, earlier_text, builds>>

ivars == <<collection, kb, runs, finds, last_upsert>>

svars == <<served>>

ovars == <<gvars, dvars, ivars, svars>>

xvars == <<calls, lin, ncalls, ovars>>

vars == <<vvars, cvars, pvars, xvars>>

\* No component is run on its own.
GeneratorOff ==
    /\ response_text = <<>>
    /\ sql_result = <<>>
    /\ gpc = "off"

DocumentOff ==
    /\ hash_order = <<>>
    /\ doc_input = <<>>
    /\ schema_text = <<>>
    /\ earlier_text = <<>>
    /\ builds = 0

IndexOff ==
    /\ collection = <<>>
    /\ kb = <<>>
    /\ runs = <<>>
    /\ finds = <<>>
    /\ last_upsert = <<>>

StatusOff == served = <<>>

OthersOff == GeneratorOff /\ DocumentOff /\ IndexOff /\ StatusOff

ExtraOff ==
    /\ calls = <<>>
    /\ lin = <<>>
    /\ ncalls = 0
    /\ OthersOff

\* No candidate is at the gate.
ValidatorOff ==
    /\ sql_query = <<>>
    /\ validation_result = NewValidation
    /\ vpc = "off"
    /\ http_detail = <<>>

\* No request was received.
PipelineInit ==
    /\ requests = [r \in RequestIds |-> NewRequest]
    /\ running = 0
    /\ valid_sql = {}
    /\ executed_sql = {}
    /\ cached_sql = {}

ValidatorInit ==
    /\ sql_query \in Texts
    /\ validation_result = NewValidation
    /\ vpc = "input"
    /\ http_detail = <<>>
    /\ QueryCache_init
    /\ PipelineInit
    /\ ExtraOff

\* validation = sql_generator.validate_sql(sql_result['sql_query'])
Validate ==
    /\ vpc = "input"
    /\ validation_result' = validate_sql(sql_query)
    /\ vpc' = "validated"
    /\ UNCHANGED <<sql_query, http_detail>>
    /\ UNCHANGED <<cvars, pvars, xvars>>

\* validate_sql when a statement of check k raises: the checks before it have
\* run, the except branch adds its error and the result is returned.
ValidateRaises ==
    /\ vpc = "input"
    /\ LET partial == PartialResults(sql_query)
       IN  \E k \in Checks :
               /\ CanRaise(sql_query, k)
               /\ validation_result' = Raised(partial[k])
    /\ vpc' = "failed"
    /\ UNCHANGED <<sql_query, http_detail>>
    /\ UNCHANGED <<cvars, pvars, xvars>>

\* if not validation.is_valid: raise HTTPException(status_code=400, ...)
Reject ==
    /\ vpc = "validated"
    /\ ~validation_result.is_valid
    /\ http_detail' = RejectionDetail(validation_result)
    /\ vpc' = "rejected"
    /\ UNCHANGED <<sql_query, validation_result>>
    /\ UNCHANGED <<cvars, pvars, xvars>>

\* the candidate passes the gate
Accept ==
    /\ vpc = "validated"
    /\ validation_result.is_valid
    /\ vpc' = "accepted"
    /\ UNCHANGED <<sql_query, validation_result, http_detail>>
    /\ UNCHANGED <<cvars, pvars, xvars>>

ValidatorNext == Validate \/ ValidateRaises \/ Reject \/ Accept

SpecValidator == ValidatorInit /\ [][ValidatorNext]_vars

\* The cache alone, called with any text and any result at any time.
CacheInit == QueryCache_init /\ ValidatorOff /\ PipelineInit /\ ExtraOff

Get ==
    /\ nops < MaxOps
    /\ \E q \in QueryTexts : get(q)
    /\ UNCHANGED <<vvars, pvars, xvars>>

Set ==
    /\ nops < MaxOps
    /\ \E q \in QueryTexts, result \in Results : set(q, result)
    /\ UNCHANGED <<vvars, pvars, xvars>>

Clear ==
    /\ nops < MaxOps
    /\ clear
    /\ UNCHANGED <<vvars, pvars, xvars>>

Clock == Tick /\ UNCHANGED <<vvars, pvars, xvars>>

CacheNext == Get \/ Set \/ Clear \/ Clock

SpecCache == CacheInit /\ [][CacheNext]_vars

\* The service: requests to /query/sql and /cache/clear.
Init == QueryCache_init /\ ValidatorOff /\ PipelineInit /\ ExtraOff

ReceiveRequest == \E r \in RequestIds, execute_query \in BOOLEAN : Receive(r, execute_query)

RetrievalOutcomes == {"tables", "none", "embedding_raises", "search_raises"}

RetrieveTables == \E r \in RequestIds, outcome \in RetrievalOutcomes : Retrieved(r, outcome)

GenerateCandidate ==
    \E r \in RequestIds, outcome \in {"parsed", "raises"}, candidate \in Candidates :
        Generated(r, outcome, candidate)

Validation == \E r \in RequestIds : ValidateCandidate(r)

CacheLookup == \E r \in RequestIds : CacheGet(r)

Execution == \E r \in RequestIds, execution_result \in Results \cup {Failure} :
                 ExecuteQuery(r, execution_result)

Next ==
    \/ (ReceiveRequest /\ UNCHANGED <<vvars, xvars>>)
    \/ (RetrieveTables /\ UNCHANGED <<vvars, xvars>>)
    \/ (GenerateCandidate /\ UNCHANGED <<vvars, xvars>>)
    \/ (Validation /\ UNCHANGED <<vvars, xvars>>)
    \/ (CacheLookup /\ UNCHANGED <<vvars, xvars>>)
    \/ (Execution /\ UNCHANGED <<vvars, xvars>>)
    \/ (clear_cache /\ UNCHANGED <<vvars, xvars>>)
    \/ (Tick /\ UNCHANGED <<vvars, pvars, xvars>>)

Spec == Init /\ [][Next]_vars

(***************************************************************************)
(* Properties of the validator.                                            *)
(***************************************************************************)
Validated == vpc \in {"validated", "rejected", "accepted"}

HasError(v, text) == \E k \in 1..Len(v.errors) : v.errors[k].text = text

\* The keyword occurs somewhere in the text, in any letter case.
Mentions(sql, keyword) == \E i \in 1..Len(sql) : MatchesAt(sql, i, keyword)

\* C2: a text that holds a mutation keyword (DROP, DELETE, UPDATE, INSERT,
\* TRUNCATE, ALTER, CREATE) anywhere, in any letter case, is invalid and has
\* an error naming that keyword.
C2_MutationKeywordRejected ==
    Validated =>
        \A k \in 1..Len(dangerous_keywords) :
            Mentions(sql_query, dangerous_keywords[k]) =>
                /\ ~validation_result.is_valid
                /\ InSeq(Message(MSG_DANGEROUS, <<dangerous_keywords[k]>>),
                         validation_result.errors)

\* A validated text that holds a keyword, but not in capitals.
C2_Witness ==
    /\ Validated
    /\ \E k \in 1..Len(dangerous_keywords) :
          /\ Mentions(sql_query, dangerous_keywords[k])
          /\ ~Contains(sql_query, dangerous_keywords[k])
    /\ ~validation_result.is_valid

\* The trimmed text begins with SELECT, letter case ignored.
BeginsWithSelect(sql) ==
    LET first == SkipSpace(sql, 1)
    IN  MatchesAt(sql, first, K_SELECT)

\* C3: a text whose trimmed form does not begin with SELECT (letter case
\* ignored) is invalid, whatever else it contains.
C3_NonSelectRejected ==
    Validated =>
        (~BeginsWithSelect(sql_query) => ~validation_result.is_valid)

\* A validated text that holds SELECT, not at its start, and breaks no other rule:
\* the SELECT check alone rejects it.
C3_Witness ==
    /\ Validated
    /\ ~BeginsWithSelect(sql_query)
    /\ Mentions(sql_query, K_SELECT)
    /\ validation_result.errors = <<Message(MSG_SELECT_ONLY, <<>>)>>

(***************************************************************************)
(* The tables a text references, read as SQL reads a FROM clause: after    *)
(* FROM or JOIN comes a list of one or more names separated by commas,     *)
(* each name bare or in double quotes.                                     *)
(***************************************************************************)
\* The name at i, bare or quoted: [name, next], name <<>> when none is there.
TableNameAt(s, i) ==
    IF i <= Len(s) /\ s[i] = "\"" /\ i + 1 <= Len(s) /\ IsIdentStart(s[i + 1])
    THEN LET e == SkipIdent(s, i + 2)
         IN  IF e <= Len(s) /\ s[e] = "\""
             THEN [name |-> SubSeq(s, i + 1, e - 1), next |-> e + 1]
             ELSE [name |-> <<>>, next |-> i]
    ELSE IF i <= Len(s) /\ IsIdentStart(s[i])
    THEN LET e == SkipIdent(s, i + 1)
         IN  [name |-> SubSeq(s, i, e - 1), next |-> e]
    ELSE [name |-> <<>>, next |-> i]

\* The comma-separated names from i on.
RECURSIVE TableListAt(_, _)
TableListAt(s, i) ==
    LET n == TableNameAt(s, i)
    IN  IF n.name = <<>> THEN <<>>
        ELSE LET c == SkipSpace(s, n.next)
             IN  IF c <= Len(s) /\ s[c] = ","
                 THEN <<n.name>> \o TableListAt(s, SkipSpace(s, c + 1))
                 ELSE <<n.name>>

\* Every name of every FROM or JOIN list of the text.
RECURSIVE ReferencedTables(_, _)
ReferencedTables(s, i) ==
    IF i > Len(s) THEN <<>>
    ELSE IF TableKeywordAt(s, i) /\ SkipSpace(s, i + 4) > i + 4
         THEN TableListAt(s, SkipSpace(s, i + 4)) \o ReferencedTables(s, i + 4)
         ELSE ReferencedTables(s, i + 1)

\* The name is on the allow-list, letter case ignored.
IsAllowedTable(name) ==
    \E k \in 1..Len(POC_TABLES) : upper(POC_TABLES[k]) = upper(name)

\* The text references a table that is not on the allow-list.
ReferencesUnauthorized(sql) ==
    LET refs == ReferencedTables(sql, 1)
    IN  \E k \in 1..Len(refs) : ~IsAllowedTable(refs[k])

\* C4: a text that references a table outside the allow-list is invalid,
\* whatever the rest of the query is (other allowed tables, the position of
\* the reference, letter case, quoting, a comma-separated table list): no
\* candidate that references such a table passes the gate.
C4_UnauthorizedTableRejected ==
    vpc = "accepted" => ~ReferencesUnauthorized(sql_query)

\* How many of the keywords the text mentions.
MentionedKeywords(sql) ==
    {k \in 1..Len(dangerous_keywords) : Mentions(sql, dangerous_keywords[k])}

\* Some injection pattern matches the text.
InjectionFound(sql) ==
    \E k \in 1..Len(injection_patterns) : re_search(injection_patterns[k], sql)

\* The number of entries the violated hard checks call for: one per mutation
\* keyword, one for the SELECT start, one for the tables, one for injection.
ViolationCount(sql) ==
    Cardinality(MentionedKeywords(sql))
    + (IF ~BeginsWithSelect(sql) THEN 1 ELSE 0)
    + (IF invalid_tables(sql) # <<>> THEN 1 ELSE 0)
    + (IF InjectionFound(sql) THEN 1 ELSE 0)

\* C5: all four hard checks run on every input, none stops the others: the
\* errors hold an entry for every violated check, and a rejected candidate's
\* HTTP detail holds every entry of errors, in order.
C5_AllViolationsReported ==
    /\ Validated =>
        /\ \A k \in MentionedKeywords(sql_query) :
              InSeq(Message(MSG_DANGEROUS, <<dangerous_keywords[k]>>),
                    validation_result.errors)
        /\ ~BeginsWithSelect(sql_query) =>
              HasError(validation_result, MSG_SELECT_ONLY)
        /\ invalid_tables(sql_query) # <<>> =>
              HasError(validation_result, MSG_UNAUTHORIZED)
        /\ InjectionFound(sql_query) =>
              HasError(validation_result, MSG_INJECTION)
        /\ Len(validation_result.errors) = ViolationCount(sql_query)
    /\ vpc = "rejected" =>
        /\ Len(http_detail) = 2 * Len(validation_result.errors)
        /\ \A k \in 1..Len(validation_result.errors) :
              http_detail[2 * k] = validation_result.errors[k]

\* A rejected candidate that violates all four checks.
C5_Witness ==
    /\ vpc = "rejected"
    /\ MentionedKeywords(sql_query) # {}
    /\ ~BeginsWithSelect(sql_query)
    /\ invalid_tables(sql_query) # <<>>
    /\ InjectionFound(sql_query)
    /\ Len(http_detail) >= 8

\* validate_sql with the four warning checks left out.
HardChecksOnly(sql) ==
    CheckInjection(CheckTables(CheckSelect(CheckDangerous(NewValidation, sql), sql), sql), sql)

\* C6: the four warnings never change validity: is_valid is what the hard
\* checks alone give, and a text with warnings and no hard failure is valid.
C6_WarningsNeverBlock ==
    Validated =>
        /\ validation_result.is_valid = HardChecksOnly(sql_query).is_valid
        /\ validation_result.errors = HardChecksOnly(sql_query).errors
        /\ (validation_result.warnings # <<>> /\ ViolationCount(sql_query) = 0)
              => validation_result.is_valid

\* An accepted candidate with three warnings.
C6_Witness ==
    /\ vpc = "accepted"
    /\ Len(validation_result.warnings) >= 3
    /\ validation_result.is_valid

(***************************************************************************)
(* Properties of the request pipeline.                                     *)
(***************************************************************************)
\* C1: the executor is called, and the cache read or written, for a text
\* only after validate_sql found that text valid; a candidate with a
\* validation error is answered with 400, is never executed and never cached.
C1_ValidatedBeforeUse ==
    /\ executed_sql \subseteq valid_sql
    /\ cached_sql \subseteq valid_sql
    /\ \A q \in executed_sql \cup cached_sql : ViolationCount(q) = 0
    /\ DOMAIN _cache \subseteq {CacheKey[q] : q \in valid_sql}
    /\ \A r \in RequestIds :
          /\ (requests[r].pc \in {"cache_get", "execute"} \/ requests[r].response.executed)
                => /\ requests[r].validation = validate_sql(requests[r].sql_query)
                   /\ requests[r].validation.is_valid
                   /\ requests[r].validation.errors = <<>>
          /\ (requests[r].pc = "done" /\ requests[r].sql_query # <<>>
                 /\ ViolationCount(requests[r].sql_query) > 0)
                => /\ requests[r].response.status = 400
                   /\ ~requests[r].response.executed
                   /\ requests[r].sql_query \notin executed_sql \cup cached_sql

\* One request was rejected for its candidate, another one's candidate was
\* executed and its result cached.
C1_Witness ==
    /\ \E r \in RequestIds :
          /\ requests[r].response.status = 400
          /\ requests[r].sql_query = Q_drop
          /\ requests[r].execute_query
    /\ \E r \in RequestIds :
          /\ requests[r].response.status = 200
          /\ requests[r].response.executed
          /\ requests[r].sql_query \in executed_sql \cap cached_sql
          /\ CacheKey[requests[r].sql_query] \in DOMAIN _cache

(***************************************************************************)
(* Properties of the cache.                                                *)
(***************************************************************************)
\* The step is a call of the operation.
IsCall(op) == nops' = nops + 1 /\ last'.op = op

\* C7: after any sequence of get, set and clear, the cache holds at most
\* max_size entries.
C7_SizeAtMostMax ==
    /\ Cardinality(DOMAIN _cache) <= max_size
    /\ Len(_timestamps) <= max_size

\* A set on a full cache has just evicted, and the cache is full again.
C7_Witness ==
    /\ last.op = "set"
    /\ last.path = "evicted"
    /\ Cardinality(DOMAIN _cache) = max_size

\* The place of the key in the order of insertion, 0 when it has none.
Position(timestamps, key) ==
    IF \E i \in 1..Len(timestamps) : timestamps[i].key = key
    THEN CHOOSE i \in 1..Len(timestamps) : timestamps[i].key = key
    ELSE 0

\* The last n elements of the sequence.
LastN(seq, n) == {seq[i] : i \in (Len(seq) - n + 1)..Len(seq)}

\* C8: a set that would overflow the cache evicts exactly one entry, the one
\* inserted earliest; a get changes neither the insertion time nor the place
\* of an entry that stays; of max_size+1 or more different keys inserted in a
\* row the cache holds the last max_size, so the first inserted went first.
C8_EvictsOldestInsertion ==
    /\ [][IsCall("set") =>
            LET key == CacheKey[last'.sql_query]
            IN  /\ TimestampOf(_timestamps', key) = now
                /\ (key \notin DOMAIN _cache /\ Cardinality(DOMAIN _cache) = max_size) =>
                      \E victim \in DOMAIN _cache :
                          /\ DOMAIN _cache' = ((DOMAIN _cache) \ {victim}) \cup {key}
                          /\ last'.evicted = victim
                          /\ \A k \in DOMAIN _cache :
                                \/ k = victim
                                \/ TimestampOf(_timestamps, k) > TimestampOf(_timestamps, victim)
                                \/ /\ TimestampOf(_timestamps, k) = TimestampOf(_timestamps, victim)
                                   /\ Position(_timestamps, k) > Position(_timestamps, victim)
                          /\ \A k \in (DOMAIN _cache) \ {victim} :
                                /\ _cache'[k] = _cache[k]
                                /\ TimestampOf(_timestamps', k) = TimestampOf(_timestamps, k)]_vars
    /\ [][IsCall("get") =>
            \A k \in DOMAIN _cache' :
                /\ k \in DOMAIN _cache
                /\ TimestampOf(_timestamps', k) = TimestampOf(_timestamps, k)
                /\ \A j \in DOMAIN _cache' :
                      (Position(_timestamps', k) < Position(_timestamps', j))
                          <=> (Position(_timestamps, k) < Position(_timestamps, j))]_vars
    /\ [](distinct_run.pure /\ Len(distinct_run.keys) >= max_size =>
            DOMAIN _cache = LastN(distinct_run.keys, max_size))

\* max_size+1 different keys were inserted, a get in between hit the first
\* of them, and the set of the last one evicted the first.
C8_Witness ==
    /\ last.op = "set"
    /\ last.path = "evicted"
    /\ distinct_run.pure
    /\ Len(distinct_run.keys) = max_size + 1
    /\ last.evicted = distinct_run.keys[1]
    /\ distinct_run.read

\* C9: a get for a key whose entry is ttl_seconds old or older returns
\* absent, counts a miss and no hit and removes the entry; a get that returns
\* an entry finds it younger than ttl_seconds.
C9_ExpiredIsAbsent ==
    [][IsCall("get") =>
          LET key == CacheKey[last'.sql_query]
          IN  /\ (key \in DOMAIN _cache
                    /\ now - TimestampOf(_timestamps, key) >= ttl_seconds) =>
                     /\ last'.ret = None
                     /\ _misses' = _misses + 1
                     /\ _hits' = _hits
                     /\ key \notin DOMAIN _cache'
                     /\ Position(_timestamps', key) = 0
              /\ last'.ret # None =>
                     /\ key \in DOMAIN _cache
                     /\ now - TimestampOf(_timestamps, key) < ttl_seconds]_vars

\* A get found an entry of age ttl_seconds or more and removed it.
C9_Witness ==
    /\ last.op = "get"
    /\ last.path = "expired"
    /\ last.ret = None
    /\ CacheKey[last.sql_query] \notin DOMAIN _cache
    /\ _misses > 0

\* The entry of the last set(q, ..) is there and younger than ttl_seconds.
IsLive(q) ==
    /\ set_results[q] # None
    /\ now - set_results[q].time < ttl_seconds

\* C10: for every text q, a get(q) with no earlier set(q) returns absent and
\* counts one miss; a get(q) after set(q, R), before the entry expires or is
\* evicted, returns R, the result of the last set(q, ..), and counts one hit.
C10_GetReturnsWhatWasSet ==
    [][IsCall("get") =>
          LET q == last'.sql_query
          IN  /\ q \notin ever_set =>
                     /\ last'.ret = None
                     /\ _misses' = _misses + 1
              /\ IsLive(q) =>
                     /\ last'.ret = set_results[q].result
                     /\ _hits' = _hits + 1]_vars

(***************************************************************************)
(* The cache under overlapping requests, statement by statement.  Every    *)
(* handler of main.py is a coroutine (async def) of the one event loop     *)
(* that uvicorn.run starts, and get, set and clear hold no await: a call   *)
(* that has begun runs to its return before another handler runs.          *)
(***************************************************************************)
\* the number of cache calls of a behaviour
MaxCalls == 3

\* The texts of the overlapping calls: three keys for a cache of max_size.
CallTexts == {Q_1, Q_2, Q_drop}

NoCall == [pc |-> "idle", op |-> "none", key |-> <<>>, result |-> None,
           victim |-> <<>>, t |-> 0, ret |-> None]

\* Handlers that are threads: any of them runs at any statement.
MayStep_Threads(r) == TRUE

\* The handler may run its next statement: it has the event loop, or none has.
MayStep(r) == running \in {0, r}

\* The cache as a call finds it and leaves it.
Observed ==
    [cache |-> _cache, timestamps |-> _timestamps, hits |-> _hits,
     misses |-> _misses, total |-> _total_requests]

HasTimestamp(timestamps, key) == \E i \in 1..Len(timestamps) : timestamps[i].key = key

\* get, set and clear as one step each on a cache c, at time t
SeqGet(c, key, t) ==
    IF key \in DOMAIN c.cache /\ t - TimestampOf(c.timestamps, key) < ttl_seconds
    THEN [c EXCEPT !.total = @ + 1, !.hits = @ + 1]
    ELSE [c EXCEPT !.total = @ + 1, !.misses = @ + 1,
                   !.cache = DelCache(@, key), !.timestamps = DelTimestamp(@, key)]

SeqGetReturn(c, key, t) ==
    IF key \in DOMAIN c.cache /\ t - TimestampOf(c.timestamps, key) < ttl_seconds
    THEN c.cache[key] ELSE None

SeqSet(c, key, result, t) ==
    LET full == Cardinality(DOMAIN c.cache) >= max_size
        victim == oldest_key(c.timestamps)
        cache1 == IF full THEN DelCache(c.cache, victim) ELSE c.cache
        timestamps1 == IF full THEN DelTimestamp(c.timestamps, victim) ELSE c.timestamps
    IN  [c EXCEPT !.cache = PutCache(cache1, key, result),
                  !.timestamps = PutTimestamp(timestamps1, key, t)]

SeqClear(c) == [c EXCEPT !.cache = <<>>, !.timestamps = <<>>]

\* The call read time.time() and goes on to its next statement.
GotoAt(r, pc, t) ==
    /\ calls' = [calls EXCEPT ![r].pc = pc, ![r].t = t]
    /\ running' = r
    /\ UNCHANGED lin

\* The call goes on to its next statement.
Goto(r, pc) ==
    /\ calls' = [calls EXCEPT ![r].pc = pc]
    /\ running' = r
    /\ UNCHANGED lin

\* A statement raises (KeyError, ValueError): the call ends there.
Raise(r) ==
    /\ calls' = [calls EXCEPT ![r].pc = "raised"]
    /\ running' = 0
    /\ UNCHANGED lin

\* The call returns; history: the same call made in one step on lin.
Return(r, ret, after, seq_ret) ==
    /\ calls' = [calls EXCEPT ![r].pc = "idle", ![r].ret = ret, ![r].t = 0]
    /\ running' = 0
    /\ lin' = [state |-> after, rets |-> [lin.rets EXCEPT ![r] = seq_ret]]

calls_unchanged == UNCHANGED <<vvars, requests, valid_sql, executed_sql, cached_sql,
                               last, nops, ever_set, set_results, distinct_run, now,
                               ovars>>

\* get: self._total_requests += 1; key = self._generate_key(sql_query, params)
CallGet(r, q) ==
    /\ MayStep(r)
    /\ calls[r].pc = "idle"
    /\ ncalls < MaxCalls
    /\ ncalls' = ncalls + 1
    /\ _total_requests' = _total_requests + 1
    /\ calls' = [calls EXCEPT ![r] = [NoCall EXCEPT !.pc = "g_test", !.op = "get",
                                                    !.key = CacheKey[q]]]
    /\ running' = r
    /\ UNCHANGED <<_cache, _timestamps, _hits, _misses, lin>>
    /\ calls_unchanged

\* get, from `if key in self._cache` to its return, one statement a step
GetStatement(r) ==
    LET key == calls[r].key IN
    /\ MayStep(r)
    /\ calls[r].op = "get"
    /\ calls[r].pc \notin {"idle", "raised"}
    /\ ncalls' = ncalls
    /\ calls_unchanged
    /\ CASE calls[r].pc = "g_test" ->
              /\ IF key \notin DOMAIN _cache THEN Goto(r, "g_miss")
                 ELSE IF ~HasTimestamp(_timestamps, key) THEN Raise(r)
                 ELSE IF IsFresh(now - TimestampOf(_timestamps, key))
                      THEN GotoAt(r, "g_hit", now)
                      ELSE GotoAt(r, "g_del_cache", now)
              /\ UNCHANGED <<_cache, _timestamps, _hits, _misses, _total_requests>>
         [] calls[r].pc = "g_hit" ->
              /\ _hits' = _hits + 1
              /\ IF key \in DOMAIN _cache
                 THEN Return(r, _cache[key], SeqGet(lin.state, key, calls[r].t),
                             SeqGetReturn(lin.state, key, calls[r].t))
                 ELSE Raise(r)
              /\ UNCHANGED <<_cache, _timestamps, _misses, _total_requests>>
         [] calls[r].pc = "g_del_cache" ->
              /\ IF key \in DOMAIN _cache
                 THEN _cache' = DelCache(_cache, key) /\ Goto(r, "g_del_ts")
                 ELSE UNCHANGED _cache /\ Raise(r)
              /\ UNCHANGED <<_timestamps, _hits, _misses, _total_requests>>
         [] calls[r].pc = "g_del_ts" ->
              /\ IF HasTimestamp(_timestamps, key)
                 THEN _timestamps' = DelTimestamp(_timestamps, key) /\ Goto(r, "g_miss")
                 ELSE UNCHANGED _timestamps /\ Raise(r)
              /\ UNCHANGED <<_cache, _hits, _misses, _total_requests>>
         [] calls[r].pc = "g_miss" ->
              /\ _misses' = _misses + 1
              /\ Return(r, None, SeqGet(lin.state, key, calls[r].t),
                        SeqGetReturn(lin.state, key, calls[r].t))
              /\ UNCHANGED <<_cache, _timestamps, _hits, _total_requests>>

\* set: key = ..; if len(self._cache) >= self.max_size: oldest_key = min(..)
CallSet(r, q, result) ==
    /\ MayStep(r)
    /\ calls[r].pc = "idle"
    /\ ncalls < MaxCalls
    /\ ncalls' = ncalls + 1
    /\ IF ~IsFull(Cardinality(DOMAIN _cache))
       THEN /\ calls' = [calls EXCEPT ![r] = [NoCall EXCEPT !.pc = "s_put_cache",
                             !.op = "set", !.key = CacheKey[q], !.result = result]]
            /\ running' = r
       ELSE IF _timestamps = <<>>
       THEN /\ calls' = [calls EXCEPT ![r] = [NoCall EXCEPT !.pc = "raised", !.op = "set"]]
            /\ running' = 0
       ELSE /\ calls' = [calls EXCEPT ![r] = [NoCall EXCEPT !.pc = "s_del_cache",
                             !.op = "set", !.key = CacheKey[q], !.result = result,
                             !.victim = oldest_key(_timestamps)]]
            /\ running' = r
    /\ UNCHANGED <<_cache, _timestamps, _hits, _misses, _total_requests, lin>>
    /\ calls_unchanged

\* set, from `del self._cache[oldest_key]` to its end, one statement a step
SetStatement(r) ==
    LET key == calls[r].key
        victim == calls[r].victim
    IN
    /\ MayStep(r)
    /\ calls[r].op = "set"
    /\ calls[r].pc \notin {"idle", "raised"}
    /\ ncalls' = ncalls
    /\ calls_unchanged
    /\ UNCHANGED <<_hits, _misses, _total_requests>>
    /\ CASE calls[r].pc = "s_del_cache" ->
              /\ IF victim \in DOMAIN _cache
                 THEN _cache' = DelCache(_cache, victim) /\ Goto(r, "s_del_ts")
                 ELSE UNCHANGED _cache /\ Raise(r)
              /\ UNCHANGED _timestamps
         [] calls[r].pc = "s_del_ts" ->
              /\ IF HasTimestamp(_timestamps, victim)
                 THEN _timestamps' = DelTimestamp(_timestamps, victim)
                      /\ Goto(r, "s_put_cache")
                 ELSE UNCHANGED _timestamps /\ Raise(r)
              /\ UNCHANGED _cache
         [] calls[r].pc = "s_put_cache" ->
              /\ _cache' = PutCache(_cache, key, calls[r].result)
              /\ Goto(r, "s_put_ts")
              /\ UNCHANGED _timestamps
         [] calls[r].pc = "s_put_ts" ->
              /\ _timestamps' = PutTimestamp(_timestamps, key, now)
              /\ Return(r, None, SeqSet(lin.state, key, calls[r].result, now), None)
              /\ UNCHANGED _cache

\* clear: self._cache.clear()
CallClear(r) ==
    /\ MayStep(r)
    /\ calls[r].pc = "idle"
    /\ ncalls < MaxCalls
    /\ ncalls' = ncalls + 1
    /\ _cache' = <<>>
    /\ calls' = [calls EXCEPT ![r] = [NoCall EXCEPT !.pc = "c_ts", !.op = "clear"]]
    /\ running' = r
    /\ UNCHANGED <<_timestamps, _hits, _misses, _total_requests, lin>>
    /\ calls_unchanged

\* clear: self._timestamps.clear()
ClearStatement(r) ==
    /\ MayStep(r)
    /\ calls[r].op = "clear"
    /\ calls[r].pc = "c_ts"
    /\ ncalls' = ncalls
    /\ _timestamps' = <<>>
    /\ Return(r, None, SeqClear(lin.state), None)
    /\ UNCHANGED <<_cache, _hits, _misses, _total_requests>>
    /\ calls_unchanged

CallsInit ==
    /\ QueryCache_init
    /\ ValidatorOff
    /\ PipelineInit
    /\ calls = [r \in RequestIds |-> NoCall]
    /\ lin = [state |-> [cache |-> <<>>, timestamps |-> <<>>, hits |-> 0,
                         misses |-> 0, total |-> 0],
              rets |-> [r \in RequestIds |-> None]]
    /\ ncalls = 0
    /\ OthersOff

BeginGet == \E r \in RequestIds, q \in CallTexts : CallGet(r, q)

GetStep == \E r \in RequestIds : GetStatement(r)

BeginSet == \E r \in RequestIds, q \in CallTexts, result \in Results : CallSet(r, q, result)

SetStep == \E r \in RequestIds : SetStatement(r)

BeginClear == \E r \in RequestIds : CallClear(r)

ClearStep == \E r \in RequestIds : ClearStatement(r)

CallsClock ==
    /\ Tick
    /\ UNCHANGED <<vvars, pvars, xvars>>

CallsNext ==
    BeginGet \/ GetStep \/ BeginSet \/ SetStep \/ BeginClear \/ ClearStep \/ CallsClock

SpecCalls == CallsInit /\ [][CallsNext]_vars

\* No call is between two of its statements.
Quiescent == \A r \in RequestIds : calls[r].pc \in {"idle", "raised"}

\* C11: under every interleaving of the requests each cache call takes effect
\* as one step on the entry map and the timestamp index together: no call
\* fails on a half-made change of another, and between calls the cache, its
\* counters and every returned value are those of the same calls made one
\* after the other; the map and the index hold the same keys.
C11_CallsAreSerialized ==
    /\ \A r \in RequestIds : calls[r].pc # "raised"
    /\ Quiescent =>
          /\ Observed = lin.state
          /\ \A r \in RequestIds : calls[r].ret = lin.rets[r]
          /\ DOMAIN _cache = {_timestamps[i].key : i \in 1..Len(_timestamps)}
          /\ Cardinality(DOMAIN _cache) = Len(_timestamps)

\* Both requests made calls; the second's set found the cache full and evicted.
C11_Witness ==
    /\ Quiescent
    /\ ncalls = MaxCalls
    /\ \E r1, r2 \in RequestIds :
          /\ r1 # r2
          /\ calls[r1].op = "set"
          /\ calls[r2].op = "set"
          /\ calls[r2].victim # <<>>
    /\ Cardinality(DOMAIN _cache) = max_size

(***************************************************************************)
(* SQLGenerator._parse_sql_response and _clean_sql_query: the regular      *)
(* expressions computed character by character.  A backtick is the token   *)
(* "<backtick>" of PrintableASCII.                                         *)
(***************************************************************************)
BT == "<backtick>"

FENCE == <<BT, BT, BT>>
FENCE_SQL == FENCE \o <<"S", "Q", "L">>
L_SQL_QUERY == <<"S", "Q", "L", "_", "Q", "U", "E", "R", "Y", ":">>
L_SQL == <<"S", "Q", "L", ":">>
L_QUERY == <<"Q", "U", "E", "R", "Y", ":">>
L_EXPLANATION == <<"E", "X", "P", "L", "A", "N", "A", "T", "I", "O", "N", ":">>
L_TABLES_USED == <<"T", "A", "B", "L", "E", "S", "_", "U", "S", "E", "D", ":">>
L_TABLES == <<"T", "A", "B", "L", "E", "S">>
L_THIS_QUERY == <<"T", "H", "I", "S", " ", "Q", "U", "E", "R", "Y">>
L_THE_QUERY == <<"T", "H", "E", " ", "Q", "U", "E", "R", "Y">>
BLANK_LINE == <<"\n", "\n">>

Min(S) == CHOOSE x \in S : \A y \in S : x <= y
Max(S) == CHOOSE x \in S : \A y \in S : y <= x

\* A match object reduced to group(1); NoMatch is re.search returning None.
NoMatch == [found |-> FALSE, group |-> <<>>]
Match(text) == [found |-> TRUE, group |-> text]

\* "$" without re.MULTILINE: the end of the text, or just before a final "\n"
AtEnd(s, e) == e = Len(s) + 1 \/ (e = Len(s) /\ s[e] = "\n")

\* (?=\n\n|EXPLANATION:|TABLES_USED:|$)
SqlStop(s, e) ==
    \/ StartsWithAt(s, e, BLANK_LINE)
    \/ MatchesAt(s, e, L_EXPLANATION)
    \/ MatchesAt(s, e, L_TABLES_USED)
    \/ AtEnd(s, e)

\* (?=TABLES_USED:|$)
ExplanationStop(s, e) == MatchesAt(s, e, L_TABLES_USED) \/ AtEnd(s, e)

\* (?=\n\n|TABLES|$)
FreeTextStop(s, e) ==
    \/ StartsWithAt(s, e, BLANK_LINE)
    \/ MatchesAt(s, e, L_TABLES)
    \/ AtEnd(s, e)

\* re.search(r'```sql\s*(.*?)\s*```', s, re.DOTALL | re.IGNORECASE): the
\* leftmost opening fence that a closing fence follows; the lazy group ends
\* at the first place where whitespace and the closing fence follow.
SearchCodeBlock(s) ==
    LET Closes(e) == StartsWithAt(s, SkipSpace(s, e), FENCE)
        starts == {i \in 1..Len(s) :
                      /\ MatchesAt(s, i, FENCE_SQL)
                      /\ \E e \in (i + 6)..Len(s) : StartsWithAt(s, e, FENCE)}
    IN  IF starts = {} THEN NoMatch
        ELSE LET j == SkipSpace(s, Min(starts) + 6)
                 e == Min({k \in j..Len(s) : Closes(k)})
             IN  Match(SubSeq(s, j, e - 1))

\* re.search(label + r'\s*(.*?)(?=\n\n|EXPLANATION:|TABLES_USED:|$)', s,
\* re.DOTALL | re.IGNORECASE): the leftmost label; the greedy \s* runs over
\* line breaks too, the lazy group ends at the first stop after it.
SearchLabeled(s, label) ==
    LET starts == {i \in 1..Len(s) : MatchesAt(s, i, label)}
    IN  IF starts = {} THEN NoMatch
        ELSE LET j == SkipSpace(s, Min(starts) + Len(label))
                 e == Min({k \in j..(Len(s) + 1) : SqlStop(s, k)})
             IN  Match(SubSeq(s, j, e - 1))

sql_patterns == <<L_SQL_QUERY, L_SQL, L_QUERY>>

\* for pattern in sql_patterns: the first pattern that matches, and break
RECURSIVE SearchSqlPatterns(_, _)
SearchSqlPatterns(s, k) ==
    IF k > Len(sql_patterns) THEN NoMatch
    ELSE LET sql_match == SearchLabeled(s, sql_patterns[k])
         IN  IF sql_match.found THEN sql_match ELSE SearchSqlPatterns(s, k + 1)

\* re.search(r'(SELECT\s+.*?;)', s, re.DOTALL | re.IGNORECASE)
SearchSelect(s) ==
    LET Semis(i) == {k \in (i + 7)..Len(s) : s[k] = ";"}
        starts == {i \in 1..Len(s) :
                      /\ MatchesAt(s, i, K_SELECT)
                      /\ i + 6 <= Len(s)
                      /\ IsSpace(s[i + 6])
                      /\ Semis(i) # {}}
    IN  IF starts = {} THEN NoMatch
        ELSE LET i == Min(starts)
             IN  Match(SubSeq(s, i, Min(Semis(i))))

\* re.sub(fence + r'\s*', '', s): every fence and the whitespace after it
\* removed, left to right; the fence is given in capitals and matched with
\* the letter case ignored.
RECURSIVE RemoveFences(_, _, _)
RemoveFences(s, fence, i) ==
    IF i > Len(s) THEN <<>>
    ELSE IF MatchesAt(s, i, fence) THEN RemoveFences(s, fence, SkipSpace(s, i + Len(fence)))
    ELSE <<s[i]>> \o RemoveFences(s, fence, i + 1)

\* re.sub(r'^(sql|query):\s*', '', s, flags=re.IGNORECASE)
RemovePrefix(s) ==
    IF MatchesAt(s, 1, L_SQL) THEN SubSeq(s, SkipSpace(s, 5), Len(s))
    ELSE IF MatchesAt(s, 1, L_QUERY) THEN SubSeq(s, SkipSpace(s, 7), Len(s))
    ELSE s

\* str.split(sep) for a one-character separator
RECURSIVE split(_, _)
split(s, sep) ==
    LET at == {i \in 1..Len(s) : s[i] = sep}
    IN  IF at = {} THEN <<s>>
        ELSE <<SubSeq(s, 1, Min(at) - 1)>> \o split(SubSeq(s, Min(at) + 1, Len(s)), sep)

\* re.sub(r'\s+', ' ', line): every run of whitespace becomes one space
RECURSIVE CollapseSpace(_, _)
CollapseSpace(line, i) ==
    IF i > Len(line) THEN <<>>
    ELSE IF IsSpace(line[i]) THEN <<" ">> \o CollapseSpace(line, SkipSpace(line, i))
    ELSE <<line[i]>> \o CollapseSpace(line, i + 1)

\* the loop over the lines: cleaned_lines
RECURSIVE CleanLines(_, _)
CleanLines(lines, k) ==
    IF k > Len(lines) THEN <<>>
    ELSE LET cleaned_line == CollapseSpace(strip(lines[k]), 1)
         IN  (IF cleaned_line # <<>> THEN <<cleaned_line>> ELSE <<>>)
                 \o CleanLines(lines, k + 1)

\* sep.join(items) for texts
RECURSIVE join(_, _)
join(items, sep) ==
    IF items = <<>> THEN <<>>
    ELSE IF Len(items) = 1 THEN items[1]
    ELSE items[1] \o sep \o join(Tail(items), sep)

_clean_sql_query(sql) ==
    LET unfenced == RemoveFences(RemoveFences(sql, FENCE_SQL, 1), FENCE, 1)
        joined == join(CleanLines(split(RemovePrefix(unfenced), "\n"), 1), <<" ">>)
    IN  IF joined # <<>> /\ joined[Len(joined)] # ";" THEN Append(joined, ";")
        ELSE joined

\* The three attempts at the SQL text, each tried while sql_query is empty,
\* then the clean-up of what was found.
ExtractSql(s) ==
    LET code_block_match == SearchCodeBlock(s)
        first == IF code_block_match.found THEN strip(code_block_match.group) ELSE <<>>
        second == IF first # <<>> THEN first ELSE strip(SearchSqlPatterns(s, 1).group)
        third == IF second # <<>> THEN second ELSE strip(SearchSelect(s).group)
    IN  IF third # <<>> THEN _clean_sql_query(third) ELSE <<>>

\* re.search(r'EXPLANATION:\s*(.*?)(?=TABLES_USED:|$)', s, re.DOTALL | re.IGNORECASE)
SearchExplanation(s) ==
    LET starts == {i \in 1..Len(s) : MatchesAt(s, i, L_EXPLANATION)}
    IN  IF starts = {} THEN NoMatch
        ELSE LET j == SkipSpace(s, Min(starts) + Len(L_EXPLANATION))
                 e == Min({k \in j..(Len(s) + 1) : ExplanationStop(s, k)})
             IN  Match(SubSeq(s, j, e - 1))

\* re.search(phrase + r'\s+(.*?)(?=\n\n|TABLES|$)', s, re.DOTALL | re.IGNORECASE)
SearchPhrase(s, phrase) ==
    LET starts == {i \in 1..Len(s) :
                      /\ MatchesAt(s, i, phrase)
                      /\ i + Len(phrase) <= Len(s)
                      /\ IsSpace(s[i + Len(phrase)])}
    IN  IF starts = {} THEN NoMatch
        ELSE LET j == SkipSpace(s, Min(starts) + Len(phrase))
                 e == Min({k \in j..(Len(s) + 1) : FreeTextStop(s, k)})
             IN  Match(SubSeq(s, j, e - 1))

\* re.search(r'```\s*\n\n(.*?)(?=\n\n|TABLES|$)', s, re.DOTALL | re.IGNORECASE):
\* the greedy \s* gives back what it must to leave a blank line, so the
\* blank line taken is the last one of the whitespace after the fence.
SearchAfterFence(s) ==
    LET Blank(i) == {p \in (i + 3)..(SkipSpace(s, i + 3) - 2) : StartsWithAt(s, p, BLANK_LINE)}
        starts == {i \in 1..Len(s) : StartsWithAt(s, i, FENCE) /\ Blank(i) # {}}
    IN  IF starts = {} THEN NoMatch
        ELSE LET j == Max(Blank(Min(starts))) + 2
                 e == Min({k \in j..(Len(s) + 1) : FreeTextStop(s, k)})
             IN  Match(SubSeq(s, j, e - 1))

\* for pattern in exp_patterns: the first pattern that matches, and break
SearchExpPatterns(s) ==
    IF SearchPhrase(s, L_THIS_QUERY).found THEN SearchPhrase(s, L_THIS_QUERY)
    ELSE IF SearchPhrase(s, L_THE_QUERY).found THEN SearchPhrase(s, L_THE_QUERY)
    ELSE SearchAfterFence(s)

\* re.sub(r'\*+', '', t) then re.sub(r'`+', '', t)
RemoveMarkers(t) == SelectSeq(t, LAMBDA c : c \notin {"*", BT})

ExtractExplanation(s) ==
    LET explanation_match == SearchExplanation(s)
        explanation == IF explanation_match.found THEN strip(explanation_match.group)
                       ELSE strip(SearchExpPatterns(s).group)
    IN  IF explanation # <<>> THEN strip(RemoveMarkers(explanation)) ELSE explanation

\* [a-zA-Z, ]
IsTablesChar(c) == c \in LowerLetters \cup UpperLetters \cup {",", " "}

RECURSIVE SkipTablesChars(_, _)
SkipTablesChars(s, i) ==
    IF i <= Len(s) /\ IsTablesChar(s[i]) THEN SkipTablesChars(s, i + 1) ELSE i

\* Where the group of r'TABLES_USED:\s*([a-zA-Z, ]+)' starts for the label
\* at i, 0 when the pattern does not match there: after the whitespace, or,
\* when no character of the class stands there, at the last blank the
\* greedy \s* can give back.
TablesGroupStart(s, i) ==
    LET from == i + Len(L_TABLES_USED)
        w == SkipSpace(s, from)
        blanks == {p \in from..(w - 1) : s[p] = " "}
    IN  IF w <= Len(s) /\ IsTablesChar(s[w]) THEN w
        ELSE IF blanks # {} THEN Max(blanks)
        ELSE 0

\* re.search(r'TABLES_USED:\s*([a-zA-Z, ]+)', s, re.IGNORECASE)
SearchTables(s) ==
    LET starts == {i \in 1..Len(s) :
                      MatchesAt(s, i, L_TABLES_USED) /\ TablesGroupStart(s, i) # 0}
    IN  IF starts = {} THEN NoMatch
        ELSE LET j == TablesGroupStart(s, Min(starts))
             IN  Match(SubSeq(s, j, SkipTablesChars(s, j) - 1))

\* [t.strip() for t in tokens if t.strip() and len(t.strip()) < 10]
RECURSIVE ShortTokens(_, _)
ShortTokens(tokens, k) ==
    IF k > Len(tokens) THEN <<>>
    ELSE LET t == strip(tokens[k])
         IN  (IF t # <<>> /\ Len(t) < 10 THEN <<t>> ELSE <<>>) \o ShortTokens(tokens, k + 1)

ExtractTables(s, sql) ==
    LET tables_match == SearchTables(s)
        tables_used == IF tables_match.found
                       THEN ShortTokens(split(strip(tables_match.group), ","), 1)
                       ELSE <<>>
    IN  IF tables_used = <<>> /\ sql # <<>> THEN _extract_table_names(sql)
        ELSE tables_used

\* 'full_response': response_text
full_response_Cleaned(text) == strip(text)

full_response(text) == text

_parse_sql_response(text) ==
    LET sql == ExtractSql(text)
    IN  [sql_query |-> sql,
         explanation |-> ExtractExplanation(text),
         tables_used |-> ExtractTables(text, sql),
         full_response |-> full_response(text)]

(***************************************************************************)
(* The raw texts given to the parser: responses that follow the output     *)
(* contract of the prompt, and texts put together from pieces.             *)
(***************************************************************************)
S_select_o ==
    <<"S", "E", "L", "E", "C", "T", " ", "*", " ", "F", "R", "O", "M", " ",
      "o", ";">>
S_two_lines ==
    <<"S", "E", "L", "E", "C", "T", " ", "*", "\n", "F", "R", "O", "M", " ",
      "o">>
S_lower ==
    <<"s", "e", "l", "e", "c", "t", " ", "a", " ", "f", "r", "o", "m", " ",
      "r", ";">>
S_join ==
    <<"S", "E", "L", "E", "C", "T", " ", "*", " ", "F", "R", "O", "M", " ",
      "o", " ", "J", "O", "I", "N", " ", "r", " ", "J", "O", "I", "N", " ",
      "o", ";">>
E_lists ==
    <<"L", "i", "s", "t", "s", " ", "o", "r", "d", "e", "r", "s">>
E_reads ==
    <<"R", "e", "a", "d", "s", " ", "t", "h", "e", " ", "r", "e", "s", "u",
      "l", "t", "s", " ", "o", "f", " ", "o">>
T_o ==
    <<"o">>
T_o_r ==
    <<"o", ",", " ", "r">>
T_digit ==
    <<"t", "2">>
T_underscore ==
    <<"o", "r", "d", "e", "r", "_", "i", "t", "e", "m", "s">>
T_ten ==
    <<"l", "a", "b", "o", "r", "a", "t", "o", "r", "y">>
T_long ==
    <<"a", "p", "p", "o", "i", "n", "t", "m", "e", "n", "t", "s">>
T_mixed ==
    <<"o", ",", " ", "a", "p", "p", "o", "i", "n", "t", "m", "e", "n", "t",
      "s", ",", " ", "r">>
R_fence_sql ==
    <<BT, BT, BT, "s", "q", "l", "\n">>
R_fence ==
    <<"\n", BT, BT, BT>>
R_select ==
    <<"S", "E", "L", "E", "C", "T", " ", "1">>
R_semi ==
    <<";">>
R_blank ==
    <<"\n", "\n">>
R_sql ==
    <<"S", "Q", "L", ":", " ">>
R_query ==
    <<"Q", "u", "e", "r", "y", ":">>
R_this ==
    <<"T", "h", "i", "s", " ", "q", "u", "e", "r", "y", " ", "r", "e", "a",
      "d", "s", " ", "o">>
R_expl ==
    <<"E", "X", "P", "L", "A", "N", "A", "T", "I", "O", "N", ":", " ">>
R_tables ==
    <<"T", "A", "B", "L", "E", "S", "_", "U", "S", "E", "D", ":", " ">>
R_names ==
    <<"o", ",", " ", "r">>
R_star ==
    <<" ", "*", "x", "*", " ">>
R_from ==
    <<" ", "f", "r", "o", "m", " ", "r">>

SqlSections == {S_select_o, S_two_lines, S_lower, S_join}
ExplanationSections == {E_lists, E_reads}
TablesSections == {T_o, T_o_r, T_digit, T_underscore, T_ten, T_long, T_mixed}

\* The output contract at the end of the prompt, filled in by the model.
ContractResponse(sql, explanation, tables) ==
    L_SQL_QUERY \o <<"\n">> \o sql \o BLANK_LINE
        \o L_EXPLANATION \o <<"\n">> \o explanation \o BLANK_LINE
        \o L_TABLES_USED \o <<"\n">> \o tables

ContractResponses ==
    {ContractResponse(s, e, t) :
        s \in SqlSections, e \in ExplanationSections, t \in TablesSections}

ResponsePieces ==
    { R_fence_sql, R_fence, R_select, R_semi, R_blank, R_sql, R_query, R_this,
      R_expl, R_tables, R_names, R_star, R_from }

\* The concatenations of exactly n response pieces.
RECURSIVE ResponsesOf(_)
ResponsesOf(n) ==
    IF n = 0 THEN {<<>>}
    ELSE {t \o p : t \in ResponsesOf(n - 1), p \in ResponsePieces}

\* Responses in which several of the attempts at the SQL text find something:
\* a labeled section before a fenced block, a statement before a labeled
\* section, a labeled section that holds a fence only before a statement,
\* and an empty SQL_QUERY section before an SQL section.
X_label_then_fence == R_sql \o R_select \o R_blank \o R_fence_sql \o S_lower \o R_fence
X_select_then_label == S_select_o \o <<" ">> \o R_sql \o R_select
X_fence_blank == R_sql \o R_fence \o R_blank \o S_select_o \o R_fence
X_empty_label == L_SQL_QUERY \o <<" ">> \o R_expl \o E_lists \o R_blank \o R_sql \o R_select

MixedResponses == {X_label_then_fence, X_select_then_label, X_fence_blank, X_empty_label}

Responses ==
    ContractResponses \cup MixedResponses
        \cup UNION {ResponsesOf(n) : n \in 0..MaxPieces}

(***************************************************************************)
(* SQLGenerator.generate_sql from the call of the model on: the model      *)
(* answers or the call fails, the answer is parsed and returned.           *)
(***************************************************************************)
\* prompt = ...; response = await self.client.generate(...)
generate_sql ==
    /\ gpc \in {"off", "returned", "raised"}
    /\ gpc' = "generate"
    /\ response_text' = <<>>
    /\ sql_result' = <<>>

\* response_text = response['response']
Responded(text) ==
    /\ gpc = "generate"
    /\ gpc' = "parse"
    /\ response_text' = text
    /\ UNCHANGED sql_result

\* client.generate raises: except Exception: log and raise
GenerateRaises ==
    /\ gpc = "generate"
    /\ gpc' = "raised"
    /\ UNCHANGED <<response_text, sql_result>>

\* sql_result = self._parse_sql_response(response_text); return sql_result
ParseResponse ==
    /\ gpc = "parse"
    /\ gpc' = "returned"
    /\ sql_result' = _parse_sql_response(response_text)
    /\ UNCHANGED response_text

GeneratorInit ==
    /\ QueryCache_init
    /\ ValidatorOff
    /\ PipelineInit
    /\ calls = <<>>
    /\ lin = <<>>
    /\ ncalls = 0
    /\ GeneratorOff
    /\ DocumentOff
    /\ IndexOff
    /\ StatusOff

generator_unchanged ==
    UNCHANGED <<vvars, cvars, pvars, calls, lin, ncalls, dvars, ivars, svars>>

CallGenerate == generate_sql /\ generator_unchanged

ModelResponds == \E text \in Responses : Responded(text) /\ generator_unchanged

ModelFails == GenerateRaises /\ generator_unchanged

Parse == ParseResponse /\ generator_unchanged

GeneratorNext == CallGenerate \/ ModelResponds \/ ModelFails \/ Parse

SpecGenerator == GeneratorInit /\ [][GeneratorNext]_vars

Parsed == gpc = "returned"

\* No label, fence or keyword that an extraction of the SQL looks for.
NoSqlSource(text) ==
    /\ ~Contains(upper(text), FENCE_SQL)
    /\ ~Contains(upper(text), L_SQL)
    /\ ~Contains(upper(text), L_QUERY)
    /\ ~Contains(upper(text), K_SELECT)

\* No label, phrase or fence that an extraction of the explanation looks for.
NoExplanationSource(text) ==
    /\ ~Contains(upper(text), L_EXPLANATION)
    /\ ~Contains(upper(text), L_THIS_QUERY)
    /\ ~Contains(upper(text), L_THE_QUERY)
    /\ ~Contains(text, FENCE)

NoTablesSource(text) == ~Contains(upper(text), L_TABLES_USED)

\* C12: parsing every raw text, the empty one included, returns the four
\* fields sql_query, explanation, tables_used and full_response; a field
\* whose extraction finds nothing to work on is empty whatever the other
\* fields hold, and full_response is the text that was parsed.
C12_ParsingIsTotal ==
    Parsed =>
        /\ DOMAIN sql_result = {"sql_query", "explanation", "tables_used", "full_response"}
        /\ sql_result.full_response = response_text
        /\ NoSqlSource(response_text) => sql_result.sql_query = <<>>
        /\ NoExplanationSource(response_text) => sql_result.explanation = <<>>
        /\ NoTablesSource(response_text) /\ sql_result.sql_query = <<>>
              => sql_result.tables_used = <<>>
        /\ response_text = <<>> =>
              /\ sql_result.sql_query = <<>>
              /\ sql_result.explanation = <<>>
              /\ sql_result.tables_used = <<>>

\* A text with a statement and nothing else was parsed: the SQL is found,
\* the explanation and the tables are empty.
C12_Witness ==
    /\ Parsed
    /\ response_text = R_select \o R_semi
    /\ sql_result.sql_query = R_select \o R_semi
    /\ sql_result.explanation = <<>>
    /\ sql_result.tables_used = <<>>

\* The statement of a SQL section: its lines on one line, one semicolon
\* at the end.
StatementOf(section) ==
    LET line == [i \in 1..Len(section) |-> IF section[i] = "\n" THEN " " ELSE section[i]]
    IN  IF line[Len(line)] = ";" THEN line ELSE Append(line, ";")

\* The names of a tables section: the items between the commas.
RECURSIVE NamesOf(_, _)
NamesOf(tokens, k) ==
    IF k > Len(tokens) THEN <<>>
    ELSE <<strip(tokens[k])>> \o NamesOf(tokens, k + 1)

\* C13: a response that follows the output contract is parsed back into
\* its three parts: the statement of the SQL section ending in one
\* semicolon, the text of the explanation section, and the names listed
\* in the tables section.
C13_ContractParsedBack ==
    Parsed =>
        \A s \in SqlSections, e \in ExplanationSections, t \in TablesSections :
            response_text = ContractResponse(s, e, t) =>
                /\ sql_result.sql_query = StatementOf(s)
                /\ sql_result.explanation = e
                /\ sql_result.tables_used = NamesOf(split(t, ","), 1)

\* The scenario of the contract: sections 'SELECT * FROM o;', 'Lists
\* orders', 'o'.
C13_Scenario ==
    Parsed /\ response_text = ContractResponse(S_select_o, E_lists, T_o) =>
        /\ sql_result.sql_query = S_select_o
        /\ sql_result.explanation = E_lists
        /\ sql_result.tables_used = <<T_o>>

(***************************************************************************)
(* Failures of the calls the pipeline awaits.                              *)
(***************************************************************************)
\* The steps of a /query/sql request that come after the generation.
LaterSteps == {"parsing", "validation", "cache_get", "execution", "cache_set"}

Occurrences(steps, step) == Cardinality({i \in 1..Len(steps) : steps[i] = step})

\* C14: a request whose embedding call, index search or generation call
\* raised ends with the 500 response of the handler, carrying no result;
\* the failed step is the last step it began and was begun once; it parsed,
\* validated and executed nothing and did not read or write the cache.
C14_FailureEndsRequest ==
    \A r \in RequestIds :
        requests[r].failed # "none" =>
            /\ requests[r].pc = "done"
            /\ requests[r].response.status = 500
            /\ requests[r].response.detail = <<Message(MSG_PROCESSING_FAILED, <<>>)>>
            /\ ~requests[r].response.executed
            /\ requests[r].steps[Len(requests[r].steps)] = requests[r].failed
            /\ \A i \in 1..Len(requests[r].steps) :
                  /\ requests[r].steps[i] \notin LaterSteps
                  /\ Occurrences(requests[r].steps, requests[r].steps[i]) = 1
            /\ requests[r].sql_query = <<>>
            /\ requests[r].validation = NewValidation

\* One request was answered from its execution and its result is cached;
\* the generation call of the other failed.
C14_Witness ==
    \E r1, r2 \in RequestIds :
        /\ requests[r1].response.status = 200
        /\ requests[r1].response.executed
        /\ CacheKey[requests[r1].sql_query] \in DOMAIN _cache
        /\ requests[r2].failed = "generation"
        /\ requests[r2].pc = "done"

(***************************************************************************)
(* SchemaProcessor: the schema document of a table, built as the text the  *)
(* code builds, character by character.  A dict is a function on the keys  *)
(* it holds; a dict whose order of items matters is a sequence of items.   *)
(***************************************************************************)
D_TABLE ==
    <<"T", "a", "b", "l", "e", ":", " ">>
D_DISPLAY ==
    <<"D", "i", "s", "p", "l", "a", "y", " ", "N", "a", "m", "e", ":", " ">>
D_ALIAS ==
    <<"A", "l", "i", "a", "s", ":", " ">>
D_DESCRIPTION ==
    <<"D", "e", "s", "c", "r", "i", "p", "t", "i", "o", "n", ":", " ">>
D_ADDITIONAL ==
    <<"A", "d", "d", "i", "t", "i", "o", "n", "a", "l", " ", "I", "n", "f",
      "o", ":", " ">>
H_FIELDS ==
    <<"F", "i", "e", "l", "d", "s", "/", "C", "o", "l", "u", "m", "n", "s",
      ":">>
H_JOINS ==
    <<"T", "a", "b", "l", "e", " ", "R", "e", "l", "a", "t", "i", "o", "n",
      "s", "h", "i", "p", "s", "/", "J", "o", "i", "n", "s", ":">>
H_INDEXES ==
    <<"D", "a", "t", "a", "b", "a", "s", "e", " ", "I", "n", "d", "e", "x",
      "e", "s", ":">>
H_EXAMPLES ==
    <<"S", "Q", "L", " ", "Q", "u", "e", "r", "y", " ", "E", "x", "a", "m",
      "p", "l", "e", "s", " ", "a", "n", "d", " ", "P", "a", "t", "t", "e",
      "r", "n", "s", ":">>
H_BUSINESS ==
    <<"B", "u", "s", "i", "n", "e", "s", "s", " ", "C", "o", "n", "t", "e",
      "x", "t", ":">>
H_METADATA ==
    <<"M", "e", "t", "a", "d", "a", "t", "a", ":">>
H_USAGE ==
    <<"C", "o", "m", "m", "o", "n", " ", "U", "s", "a", "g", "e", " ", "P",
      "a", "t", "t", "e", "r", "n", "s", ":">>
D_ITEM ==
    <<"-", " ">>
D_COLON ==
    <<":", " ">>
D_JOIN ==
    <<"-", " ", "J", "O", "I", "N", " ">>
D_EXAMPLE ==
    <<"E", "x", "a", "m", "p", "l", "e", " ">>
D_SQL_PATTERN ==
    <<"S", "Q", "L", " ", "P", "a", "t", "t", "e", "r", "n", ":">>
D_PARAMETERS ==
    <<"P", "a", "r", "a", "m", "e", "t", "e", "r", "s", ":">>
D_PARAM_ITEM ==
    <<" ", " ", "-", " ">>
D_TECHNIQUES ==
    <<"S", "Q", "L", " ", "T", "e", "c", "h", "n", "i", "q", "u", "e", "s",
      " ", "U", "s", "e", "d", ":", " ">>
D_COMMA ==
    <<",", " ">>
U_PATIENT ==
    <<"-", " ", "P", "a", "t", "i", "e", "n", "t", "-", "s", "p", "e", "c",
      "i", "f", "i", "c", " ", "q", "u", "e", "r", "i", "e", "s">>
U_DATE ==
    <<"-", " ", "D", "a", "t", "e", "-", "b", "a", "s", "e", "d", " ", "f",
      "i", "l", "t", "e", "r", "i", "n", "g">>
U_TEST ==
    <<"-", " ", "T", "e", "s", "t", " ", "r", "e", "s", "u", "l", "t", " ",
      "r", "e", "t", "r", "i", "e", "v", "a", "l">>
U_JOINED ==
    <<"-", " ", "C", "o", "m", "m", "o", "n", "l", "y", " ", "j", "o", "i",
      "n", "e", "d", " ", "w", "i", "t", "h", ":", " ">>
U_FILTERS ==
    <<"-", " ", "C", "o", "m", "m", "o", "n", " ", "f", "i", "l", "t", "e",
      "r", "s", ":", " ">>
U_GENERAL ==
    <<"-", " ", "G", "e", "n", "e", "r", "a", "l", " ", "d", "a", "t", "a",
      " ", "r", "e", "t", "r", "i", "e", "v", "a", "l", " ", "q", "u", "e",
      "r", "i", "e", "s">>
F_date_filtering ==
    <<"d", "a", "t", "e", "_", "f", "i", "l", "t", "e", "r", "i", "n", "g">>
F_test_code_filtering ==
    <<"t", "e", "s", "t", "_", "c", "o", "d", "e", "_", "f", "i", "l", "t",
      "e", "r", "i", "n", "g">>
F_order_number_filtering ==
    <<"o", "r", "d", "e", "r", "_", "n", "u", "m", "b", "e", "r", "_", "f",
      "i", "l", "t", "e", "r", "i", "n", "g">>
F_result_status_filtering ==
    <<"r", "e", "s", "u", "l", "t", "_", "s", "t", "a", "t", "u", "s", "_",
      "f", "i", "l", "t", "e", "r", "i", "n", "g">>
FD_date ==
    <<"D", "a", "t", "e", "-", "b", "a", "s", "e", "d", " ", "q", "u", "e",
      "r", "i", "e", "s">>
FD_test ==
    <<"T", "e", "s", "t", " ", "c", "o", "d", "e", " ", "f", "i", "l", "t",
      "e", "r", "i", "n", "g">>
FD_order ==
    <<"O", "r", "d", "e", "r", "-", "b", "a", "s", "e", "d", " ", "q", "u",
      "e", "r", "i", "e", "s">>
FD_status ==
    <<"R", "e", "s", "u", "l", "t", " ", "s", "t", "a", "t", "u", "s", " ",
      "f", "i", "l", "t", "e", "r", "i", "n", "g">>
K_ARDATE ==
    <<"A", "R", "D", "A", "T", "E">>
K_ARTEST ==
    <<"A", "R", "T", "E", "S", "T">>
K_ARORDNO ==
    <<"A", "R", "O", "R", "D", "N", "O">>
K_ARRESSTAT ==
    <<"A", "R", "R", "E", "S", "S", "T", "A", "T">>
K_patient ==
    <<"p", "a", "t", "i", "e", "n", "t">>
K_date ==
    <<"d", "a", "t", "e">>
K_test ==
    <<"t", "e", "s", "t">>
K_NOLOCK_WORD ==
    <<"N", "O", "L", "O", "C", "K">>
K_ORDER_BY ==
    <<"O", "R", "D", "E", "R", " ", "B", "Y">>
K_AND ==
    <<"A", "N", "D">>
K_OR ==
    <<"O", "R">>
K_GROUP_BY ==
    <<"G", "R", "O", "U", "P", " ", "B", "Y">>
T_JOINS ==
    <<"J", "O", "I", "N", "S">>
T_NOLOCK_HINTS ==
    <<"N", "O", "L", "O", "C", "K", "_", "H", "I", "N", "T", "S">>
T_SORTING ==
    <<"S", "O", "R", "T", "I", "N", "G">>
T_DATE_RANGES ==
    <<"D", "A", "T", "E", "_", "R", "A", "N", "G", "E", "S">>
T_COMPLEX_CONDITIONS ==
    <<"C", "O", "M", "P", "L", "E", "X", "_", "C", "O", "N", "D", "I", "T",
      "I", "O", "N", "S">>
T_FILTERING ==
    <<"F", "I", "L", "T", "E", "R", "I", "N", "G">>
T_AGGREGATION ==
    <<"A", "G", "G", "R", "E", "G", "A", "T", "I", "O", "N">>
T_FUNCTIONS ==
    <<"F", "U", "N", "C", "T", "I", "O", "N", "S">>
B_business_purpose ==
    <<"b", "u", "s", "i", "n", "e", "s", "s", "_", "p", "u", "r", "p", "o",
      "s", "e">>
B_data_source ==
    <<"d", "a", "t", "a", "_", "s", "o", "u", "r", "c", "e">>
B_update_frequency ==
    <<"u", "p", "d", "a", "t", "e", "_", "f", "r", "e", "q", "u", "e", "n",
      "c", "y">>
B_owner ==
    <<"o", "w", "n", "e", "r">>
B_usage_notes ==
    <<"u", "s", "a", "g", "e", "_", "n", "o", "t", "e", "s">>
M_created_date ==
    <<"c", "r", "e", "a", "t", "e", "d", "_", "d", "a", "t", "e">>
M_last_modified ==
    <<"l", "a", "s", "t", "_", "m", "o", "d", "i", "f", "i", "e", "d">>
M_record_count ==
    <<"r", "e", "c", "o", "r", "d", "_", "c", "o", "u", "n", "t">>
M_data_quality ==
    <<"d", "a", "t", "a", "_", "q", "u", "a", "l", "i", "t", "y">>
M_compliance_notes ==
    <<"c", "o", "m", "p", "l", "i", "a", "n", "c", "e", "_", "n", "o", "t",
      "e", "s">>

NL == <<"\n">>

\* d.get(k, default)
dict_get(d, k, default) == IF k \in DOMAIN d THEN d[k] ELSE default

LowerChar(c) ==
    IF c \in UpperLetters THEN CHOOSE l \in LowerLetters : UpperMap[l] = c ELSE c

\* str.lower()
lower(s) == [i \in 1..Len(s) |-> LowerChar(s[i])]

IsAlpha(c) == c \in LowerLetters \cup UpperLetters

\* field.replace('_', ' ').title()
FieldTitle(field) ==
    LET spaced == [i \in 1..Len(field) |-> IF field[i] = "_" THEN " " ELSE field[i]]
    IN  [i \in 1..Len(spaced) |->
            IF ~IsAlpha(spaced[i]) THEN spaced[i]
            ELSE IF i = 1 \/ ~IsAlpha(spaced[i - 1]) THEN UpperChar(spaced[i])
            ELSE LowerChar(spaced[i])]

\* c * n
Repeat(c, n) == [i \in 1..n |-> c]

\* str(n) of a natural number
RECURSIVE str(_)
str(n) ==
    IF n < 10 THEN <<HexDigits[n + 1]>>
    ELSE str(n \div 10) \o <<HexDigits[(n % 10) + 1]>>

\* for name, text in d.items(): schema_text += f"{bullet}{name}: {text}\n"
RECURSIVE ItemLines(_, _, _)
ItemLines(bullet, items, k) ==
    IF k > Len(items) THEN <<>>
    ELSE bullet \o items[k].name \o D_COLON \o items[k].text \o NL
         \o ItemLines(bullet, items, k + 1)

\* for condition in join_conditions: schema_text += f"- JOIN {join_table}: {condition}\n"
RECURSIVE ConditionLines(_, _, _)
ConditionLines(join_table, conditions, k) ==
    IF k > Len(conditions) THEN <<>>
    ELSE D_JOIN \o join_table \o D_COLON \o conditions[k] \o NL
         \o ConditionLines(join_table, conditions, k + 1)

\* for join_table, join_conditions in table_data['joins'].items(): a list
\* of conditions gives a line each, anything else one line
RECURSIVE JoinLines(_, _)
JoinLines(joins, k) ==
    IF k > Len(joins) THEN <<>>
    ELSE (IF joins[k].is_list
          THEN ConditionLines(joins[k].name, joins[k].conditions, 1)
          ELSE D_JOIN \o joins[k].name \o D_COLON \o joins[k].text \o NL)
         \o JoinLines(joins, k + 1)

sql_operators == << <<"=">>, <<"<", ">">>, <<">">>, <<"<">>, <<">", "=">>, <<"<", "=">> >>

sql_functions ==
    << <<"C", "O", "U", "N", "T">>, <<"S", "U", "M">>, <<"A", "V", "G">>,
       <<"M", "A", "X">>, <<"M", "I", "N">> >>

\* any(x in text for x in items)
AnyIn(items, text) == \E k \in 1..Len(items) : Contains(text, items[k])

\* SchemaProcessor._extract_sql_patterns
_extract_sql_patterns(query) ==
    LET query_upper == upper(query)
        If(test, name) == IF test THEN <<name>> ELSE <<>>
    IN  If(Contains(query_upper, K_JOIN), T_JOINS)
        \o If(Contains(query_upper, K_NOLOCK_WORD), T_NOLOCK_HINTS)
        \o If(Contains(query_upper, K_ORDER_BY), T_SORTING)
        \o If(Contains(query_upper, K_BETWEEN), T_DATE_RANGES)
        \o If(Contains(query_upper, K_AND) /\ Contains(query_upper, K_OR),
              T_COMPLEX_CONDITIONS)
        \o If(AnyIn(sql_operators, query_upper), T_FILTERING)
        \o If(Contains(query_upper, K_GROUP_BY), T_AGGREGATION)
        \o If(AnyIn(sql_functions, query_upper), T_FUNCTIONS)

\* The examples section, example i onwards.
RECURSIVE ExampleLines(_, _)
ExampleLines(examples, i) ==
    IF i > Len(examples) THEN <<>>
    ELSE LET query == dict_get(examples[i], "query", <<>>)
             description == dict_get(examples[i], "description", <<>>)
             parameters == dict_get(examples[i], "parameters", <<>>)
             sql_techniques == _extract_sql_patterns(query)
         IN  NL \o D_EXAMPLE \o str(i) \o D_COLON \o description \o NL
             \o D_SQL_PATTERN \o NL \o query \o NL
             \o (IF parameters # <<>>
                 THEN D_PARAMETERS \o NL \o ItemLines(D_PARAM_ITEM, parameters, 1)
                 ELSE <<>>)
             \o (IF sql_techniques # <<>>
                 THEN D_TECHNIQUES \o join(sql_techniques, D_COMMA) \o NL
                 ELSE <<>>)
             \o Repeat("-", 30) \o NL
             \o ExampleLines(examples, i + 1)

business_fields ==
    << [key |-> "business_purpose", name |-> B_business_purpose],
       [key |-> "data_source", name |-> B_data_source],
       [key |-> "update_frequency", name |-> B_update_frequency],
       [key |-> "owner", name |-> B_owner],
       [key |-> "usage_notes", name |-> B_usage_notes] >>

metadata_fields ==
    << [key |-> "created_date", name |-> M_created_date],
       [key |-> "last_modified", name |-> M_last_modified],
       [key |-> "record_count", name |-> M_record_count],
       [key |-> "data_quality", name |-> M_data_quality],
       [key |-> "compliance_notes", name |-> M_compliance_notes] >>

\* for field in fields: if field in catalog_info:
\*     text += f"- {field.replace('_', ' ').title()}: {catalog_info[field]}\n"
RECURSIVE CatalogLines(_, _, _)
CatalogLines(fields, catalog_info, k) ==
    IF k > Len(fields) THEN <<>>
    ELSE (IF fields[k].key \in DOMAIN catalog_info
          THEN D_ITEM \o FieldTitle(fields[k].name) \o D_COLON
               \o catalog_info[fields[k].key] \o NL
          ELSE <<>>)
         \o CatalogLines(fields, catalog_info, k + 1)

_process_business_context(catalog_info) ==
    strip(CatalogLines(business_fields, catalog_info, 1))

_process_metadata(catalog_info) ==
    strip(CatalogLines(metadata_fields, catalog_info, 1))

\* str.split(): the words between the runs of whitespace
RECURSIVE words_of(_, _)
words_of(s, i) ==
    LET from == SkipSpace(s, i)
        stops == {k \in from..Len(s) : IsSpace(s[k])}
        to == IF stops = {} THEN Len(s) + 1 ELSE Min(stops)
    IN  IF from > Len(s) THEN <<>>
        ELSE <<SubSeq(s, from, to - 1)>> \o words_of(s, to)

\* The tables after the word JOIN: words[i + 1].replace('(NOLOCK)', '').strip()
JoinedTables(query) ==
    LET words == words_of(query, 1)
    IN  {strip(RemoveAll(words[i + 1], K_NOLOCK, 1)) :
            i \in {k \in 1..(Len(words) - 1) : words[k] = K_JOIN}}

filter_desc ==
    << [tag |-> F_date_filtering, column |-> K_ARDATE, text |-> FD_date],
       [tag |-> F_test_code_filtering, column |-> K_ARTEST, text |-> FD_test],
       [tag |-> F_order_number_filtering, column |-> K_ARORDNO, text |-> FD_order],
       [tag |-> F_result_status_filtering, column |-> K_ARRESSTAT, text |-> FD_status] >>

\* The tags common_filters gets for a query.
FilterTags(query) ==
    {filter_desc[k].tag : k \in {j \in 1..Len(filter_desc) : Contains(query, filter_desc[j].column)}}

\* filter_desc.get(f, f)
FilterIndex(f) == (CHOOSE k \in 1..Len(filter_desc) : filter_desc[k].tag = f)

\* The lines summary gets for a description.
UsageNotes(description) ==
    (IF Contains(lower(description), K_patient) THEN <<U_PATIENT>> ELSE <<>>)
    \o (IF Contains(lower(description), K_date) THEN <<U_DATE>> ELSE <<>>)
    \o (IF Contains(lower(description), K_test) THEN <<U_TEST>> ELSE <<>>)

\* The loop over the examples: the lines of summary, example k onwards.
RECURSIVE NotesOf(_, _)
NotesOf(examples, k) ==
    IF k > Len(examples) THEN <<>>
    ELSE UsageNotes(dict_get(examples[k], "description", <<>>)) \o NotesOf(examples, k + 1)

\* Iterating over a set of str: the order is that of the hashes of the
\* strings, which the interpreter salts anew when the program starts;
\* order is the order of the strings in the running program.
IterateSet(S, order) == SelectSeq(order, LAMBDA x : x \in S)

RECURSIVE FilterTexts(_, _)
FilterTexts(tags, k) ==
    IF k > Len(tags) THEN <<>>
    ELSE <<filter_desc[FilterIndex(tags[k])].text>> \o FilterTexts(tags, k + 1)

\* SchemaProcessor._generate_usage_summary
_generate_usage_summary(examples, order) ==
    LET queries == {upper(dict_get(examples[k], "query", <<>>)) : k \in 1..Len(examples)}
        join_tables == UNION {IF Contains(q, K_JOIN) THEN JoinedTables(q) ELSE {} : q \in queries}
        common_filters == UNION {FilterTags(q) : q \in queries}
        summary == NotesOf(examples, 1)
            \o (IF join_tables # {}
                THEN <<U_JOINED \o join(IterateSet(join_tables, order), D_COMMA)>>
                ELSE <<>>)
            \o (IF common_filters # {}
                THEN <<U_FILTERS
                       \o join(FilterTexts(IterateSet(common_filters, order), 1), D_COMMA)>>
                ELSE <<>>)
    IN  IF summary # <<>> THEN join(summary, NL) ELSE U_GENERAL

\* SchemaProcessor._process_table_schema_with_examples
_process_table_schema_with_examples(table_data, table_name, catalog_info, order) ==
    LET Has(k) == k \in DOMAIN table_data
        has_examples == Has("examples") /\ table_data["examples"] # <<>>
        business_context == _process_business_context(catalog_info)
        metadata == _process_metadata(catalog_info)
    IN  D_TABLE \o table_name \o NL
        \o (IF Has("display_name") THEN D_DISPLAY \o table_data["display_name"] \o NL
            ELSE <<>>)
        \o (IF Has("alias") THEN D_ALIAS \o table_data["alias"] \o NL ELSE <<>>)
        \o (IF Has("description") THEN D_DESCRIPTION \o table_data["description"] \o NL
            ELSE <<>>)
        \o (IF /\ "description" \in DOMAIN catalog_info
               /\ (~Has("description")
                     \/ catalog_info["description"] # table_data["description"])
            THEN D_ADDITIONAL \o catalog_info["description"] \o NL
            ELSE <<>>)
        \o (IF Has("fields")
            THEN NL \o H_FIELDS \o NL \o ItemLines(D_ITEM, table_data["fields"], 1)
            ELSE <<>>)
        \o (IF Has("joins")
            THEN NL \o H_JOINS \o NL \o JoinLines(table_data["joins"], 1)
            ELSE <<>>)
        \o (IF Has("Indexes")
            THEN NL \o H_INDEXES \o NL \o ItemLines(D_ITEM, table_data["Indexes"], 1)
            ELSE <<>>)
        \o (IF has_examples
            THEN NL \o H_EXAMPLES \o NL \o Repeat("=", 40) \o NL
                 \o ExampleLines(table_data["examples"], 1)
            ELSE <<>>)
        \o (IF business_context # <<>>
            THEN NL \o H_BUSINESS \o NL \o business_context \o NL
            ELSE <<>>)
        \o (IF metadata # <<>> THEN NL \o H_METADATA \o NL \o metadata \o NL ELSE <<>>)
        \o (IF has_examples
            THEN NL \o H_USAGE \o NL
                 \o _generate_usage_summary(table_data["examples"], order) \o NL
            ELSE <<>>)

(***************************************************************************)
(* The table metadata and catalog entries the documents are built from.    *)
(***************************************************************************)
N_o ==
    <<"o">>
N_r ==
    <<"r">>
N_sa ==
    <<"s", "a">>
V_orders ==
    <<"O", "r", "d", "e", "r", "s">>
V_ord ==
    <<"o", "r", "d">>
V_order_table ==
    <<"O", "r", "d", "e", "r", " ", "h", "e", "a", "d", "e", "r", "s">>
V_catalog_text ==
    <<"O", "r", "d", "e", "r", "s", " ", "o", "f", " ", "t", "h", "e", " ",
      "l", "a", "b", "o", "r", "a", "t", "o", "r", "y">>
V_a ==
    <<"a">>
V_b ==
    <<"b">>
V_x_int ==
    <<"x", " ", "(", "i", "n", "t", ")">>
V_y ==
    <<"y">>
V_on_a ==
    <<"o", ".", "a", " ", "=", " ", "r", ".", "a">>
V_on_b ==
    <<"o", ".", "b", " ", "=", " ", "r", ".", "b">>
V_ix ==
    <<"i", "x", "_", "a">>
V_ix_text ==
    <<"i", "n", "d", "e", "x", " ", "o", "n", " ", "a">>
V_p ==
    <<"p">>
V_p_text ==
    <<"o", "r", "d", "e", "r", " ", "n", "u", "m", "b", "e", "r">>
V_purpose ==
    <<"B", "i", "l", "l", "i", "n", "g">>
V_owner ==
    <<"L", "a", "b", " ", "I", "T">>
V_created ==
    <<"2", "0", "2", "0", "-", "0", "1", "-", "0", "1">>
XQ_joins ==
    <<"S", "E", "L", "E", "C", "T", " ", "*", " ", "F", "R", "O", "M", " ",
      "o", " ", "(", "N", "O", "L", "O", "C", "K", ")", " ", "J", "O", "I",
      "N", " ", "r", " ", "O", "N", " ", "o", ".", "a", " ", "=", " ", "r",
      ".", "a", " ", "J", "O", "I", "N", " ", "s", "a", "(", "N", "O", "L",
      "O", "C", "K", ")", " ", "O", "N", " ", "r", ".", "b", " ", "=", " ",
      "s", "a", ".", "b", " ", "W", "H", "E", "R", "E", " ", "a", "r", "d",
      "a", "t", "e", " ", "=", " ", "1", " ", "A", "N", "D", " ", "a", "r",
      "t", "e", "s", "t", " ", "=", " ", "2">>
XD_joins ==
    <<"P", "a", "t", "i", "e", "n", "t", " ", "t", "e", "s", "t", " ", "r",
      "e", "s", "u", "l", "t", "s", " ", "b", "y", " ", "d", "a", "t", "e">>
XQ_count ==
    <<"S", "E", "L", "E", "C", "T", " ", "C", "O", "U", "N", "T", "(", "*",
      ")", " ", "F", "R", "O", "M", " ", "o">>
XD_count ==
    <<"C", "o", "u", "n", "t", "s", " ", "t", "h", "e", " ", "o", "r", "d",
      "e", "r", "s">>

W_R == upper(N_r)
W_SA == upper(N_sa)

EmptyDict == [k \in {} |-> <<>>]

Item(name, text) == [name |-> name, text |-> text]

\* {"r": [..conditions..]} and {"r": ".."}
JoinList(name, conditions) ==
    [name |-> name, is_list |-> TRUE, conditions |-> conditions, text |-> <<>>]
JoinText(name, text) ==
    [name |-> name, is_list |-> FALSE, conditions |-> <<>>, text |-> text]

X_joins == ("query" :> XQ_joins) @@ ("description" :> XD_joins)
X_count ==
    ("query" :> XQ_count) @@ ("description" :> XD_count)
        @@ ("parameters" :> <<Item(V_p, V_p_text)>>)

NameOptions == {EmptyDict, ("display_name" :> V_orders) @@ ("alias" :> V_ord)}
DescriptionOptions == {EmptyDict, ("description" :> V_order_table)}
FieldsOptions ==
    {EmptyDict, ("fields" :> <<>>),
     ("fields" :> <<Item(V_a, V_x_int), Item(V_b, V_y)>>)}
JoinsOptions ==
    {EmptyDict, ("joins" :> <<>>), ("joins" :> <<JoinList(N_r, <<>>)>>),
     ("joins" :> <<JoinList(N_r, <<V_on_a, V_on_b>>), JoinText(N_sa, V_on_b)>>)}
IndexesOptions == {EmptyDict, ("Indexes" :> <<>>), ("Indexes" :> <<Item(V_ix, V_ix_text)>>)}
ExamplesOptions ==
    {EmptyDict, ("examples" :> <<>>), ("examples" :> <<X_count>>),
     ("examples" :> <<X_count, X_joins>>)}

TableDatas ==
    {n @@ d @@ f @@ j @@ i @@ x :
        n \in NameOptions, d \in DescriptionOptions, f \in FieldsOptions,
        j \in JoinsOptions, i \in IndexesOptions, x \in ExamplesOptions}

CatalogInfos ==
    {EmptyDict,
     ("table_name" :> N_o) @@ ("description" :> V_order_table),
     ("table_name" :> N_o) @@ ("description" :> V_catalog_text)
         @@ ("business_purpose" :> V_purpose) @@ ("owner" :> V_owner)
         @@ ("created_date" :> V_created)}

\* The orders in which a program may iterate over the strings that enter
\* the sets of the usage summary.
HashOrder_1 ==
    <<W_R, W_SA, F_date_filtering, F_test_code_filtering,
      F_order_number_filtering, F_result_status_filtering>>

HashOrders ==
    { HashOrder_1,
      <<W_SA, W_R, F_date_filtering, F_test_code_filtering,
        F_order_number_filtering, F_result_status_filtering>>,
      <<W_R, W_SA, F_result_status_filtering, F_order_number_filtering,
        F_test_code_filtering, F_date_filtering>> }

DocInputs ==
    {[table_data |-> t, table_name |-> N_o, catalog_info |-> c] :
        t \in TableDatas, c \in CatalogInfos}

BuildDocument(input, order) ==
    _process_table_schema_with_examples(input.table_data, input.table_name,
                                        input.catalog_info, order)

(***************************************************************************)
(* Building documents: the program starts, builds the document of some     *)
(* metadata, builds it again, in the same run or after a restart.  The     *)
(* history ends with the second build.                                     *)
(***************************************************************************)
\* The interpreter starts: the hashes of strings get their salt.
StartProgram(order) ==
    /\ builds < 2
    /\ hash_order' = order
    /\ UNCHANGED <<doc_input, schema_text, earlier_text, builds>>

\* schema_text = self._process_table_schema_with_examples(table_data, table_name, catalog_info)
Build(input) ==
    /\ builds = 0
    /\ doc_input' = input
    /\ schema_text' = BuildDocument(input, hash_order)
    /\ earlier_text' = <<>>
    /\ builds' = 1
    /\ UNCHANGED hash_order

\* The same metadata and catalog entry are built again.
BuildAgain ==
    /\ builds = 1
    /\ earlier_text' = schema_text
    /\ schema_text' = BuildDocument(doc_input, hash_order)
    /\ builds' = 2
    /\ UNCHANGED <<doc_input, hash_order>>

DocumentInit ==
    /\ QueryCache_init
    /\ ValidatorOff
    /\ PipelineInit
    /\ calls = <<>>
    /\ lin = <<>>
    /\ ncalls = 0
    /\ GeneratorOff
    /\ hash_order \in HashOrders
    /\ doc_input = <<>>
    /\ schema_text = <<>>
    /\ earlier_text = <<>>
    /\ builds = 0
    /\ IndexOff
    /\ StatusOff

document_unchanged ==
    UNCHANGED <<vvars, cvars, pvars, calls, lin, ncalls, gvars, ivars, svars>>

Restart == \E order \in HashOrders : StartProgram(order) /\ document_unchanged

BuildOne == \E input \in DocInputs : Build(input) /\ document_unchanged

BuildSame == BuildAgain /\ document_unchanged

DocumentNext == Restart \/ BuildOne \/ BuildSame

SpecDocument == DocumentInit /\ [][DocumentNext]_vars

Built == builds > 0

\* C17: two builds from the same table metadata and the same catalog
\* entry, in one run of the program or in two, give the same text,
\* character by character.
C17_BuildIsDeterministic == builds = 2 => schema_text = earlier_text

\* Where a line of the text starts with the marker: the least such index,
\* 0 when there is none.
LineWith(text, marker) ==
    LET at == {i \in 1..Len(text) :
                  /\ StartsWithAt(text, i, marker)
                  /\ (i = 1 \/ text[i - 1] = "\n")}
    IN  IF at = {} THEN 0 ELSE Min(at)

\* The sections of a document in the order of the construction: the table
\* name header, display name and alias, description, fields, joins,
\* indexes, examples, usage summary, business context, metadata.
SectionMarkers ==
    <<D_TABLE, D_DISPLAY, D_ALIAS, D_DESCRIPTION, H_FIELDS, H_JOINS, H_INDEXES,
      H_EXAMPLES, H_USAGE, H_BUSINESS, H_METADATA>>

\* C18: of two sections that are both in the document, the one that comes
\* first in the order of the construction comes first in the text.
C18_SectionsInOrder ==
    Built =>
        \A i, j \in 1..Len(SectionMarkers) :
            (/\ i < j
             /\ LineWith(schema_text, SectionMarkers[i]) # 0
             /\ LineWith(schema_text, SectionMarkers[j]) # 0)
                => LineWith(schema_text, SectionMarkers[i])
                       < LineWith(schema_text, SectionMarkers[j])

\* The number of entries the metadata holds for a section.
Entries(table_data, key) ==
    IF key \notin DOMAIN table_data THEN 0
    ELSE IF key # "joins" THEN Len(table_data[key])
    ELSE Cardinality({k \in 1..Len(table_data[key]) :
             ~table_data[key][k].is_list \/ table_data[key][k].conditions # <<>>})

SectionHeaders ==
    << [key |-> "fields", header |-> H_FIELDS], [key |-> "joins", header |-> H_JOINS],
       [key |-> "Indexes", header |-> H_INDEXES],
       [key |-> "examples", header |-> H_EXAMPLES] >>

\* C19: the header of the fields, joins, indexes or examples section is in
\* the document only when the metadata holds at least one entry for it.
C19_NoEmptySection ==
    Built =>
        \A k \in 1..Len(SectionHeaders) :
            LineWith(schema_text, SectionHeaders[k].header) # 0
                => Entries(doc_input.table_data, SectionHeaders[k].key) > 0

(***************************************************************************)
(* VectorStore._generate_point_id (vector_store.py): the version-5 UUID of *)
(* "table_<name>" in a fixed namespace, that is the first 16 bytes of the  *)
(* SHA-1 digest (RFC 3174) of the namespace's bytes and the name's, with   *)
(* the version and variant bits set (RFC 4122).  Words are pairs           *)
(* <<high 16 bits, low 16 bits>>, as in the MD5 digest above.              *)
(***************************************************************************)
\* the initial chaining value H0..H4
SHA1_IV ==
    << <<26437, 8961>>, <<61389, 43913>>, <<39098, 56574>>, <<4146, 21622>>,
       <<50130, 57840>> >>

\* the constant of round t (0..79)
SHA1_K(t) ==
    CASE t \div 20 = 0 -> <<23170, 31129>>
      [] t \div 20 = 1 -> <<28377, 60321>>
      [] t \div 20 = 2 -> <<36635, 48348>>
      [] t \div 20 = 3 -> <<51810, 49622>>

\* x XOR y XOR z, and the majority of x, y, z, bit by bit
Xor32(x, y, z) == Round32(2, x, y, z)
And32(x, y) == Round32(0, x, y, <<0, 0>>)
Maj32(x, y, z) == Xor32(And32(x, y), And32(x, z), And32(y, z))

\* the function of round t (0..79): Ch, Parity, Maj, Parity
SHA1_f(t, x, y, z) ==
    CASE t \div 20 = 0 -> Round32(0, x, y, z)
      [] t \div 20 = 1 -> Xor32(x, y, z)
      [] t \div 20 = 2 -> Maj32(x, y, z)
      [] t \div 20 = 3 -> Xor32(x, y, z)

\* The message padded to a multiple of 64 bytes: 0x80, zeros, the bit length
\* as 8 big-endian bytes.
SHA1_Pad(bytes) ==
    LET n == Len(bytes)
        zeros == (119 - (n % 64)) % 64
        bits == 8 * n
    IN  bytes \o <<128>> \o [i \in 1..zeros |-> 0]
        \o <<0, 0, 0, 0, 0, (bits \div 65536) % 256, (bits \div 256) % 256, bits % 256>>

\* Word w (0..15) of block b (0..) of the padded message, big-endian.
SHA1_BlockWord(p, b, w) ==
    LET o == (64 * b) + (4 * w)
    IN  <<(p[o + 1] * 256) + p[o + 2], (p[o + 3] * 256) + p[o + 4]>>

\* The message schedule: W[t] = ROTL1(W[t-3] ^ W[t-8] ^ W[t-14] ^ W[t-16]);
\* W holds the words 0..t-1.
RECURSIVE SHA1_Schedule(_, _)
SHA1_Schedule(W, t) ==
    IF t = 80 \/ Len(W) # t THEN W
    ELSE SHA1_Schedule(
             Append(W, RotL32(Xor32(Xor32(W[t - 2], W[t - 7], W[t - 13]),
                                    W[t - 15], <<0, 0>>), 1)),
             t + 1)

\* The 80 rounds on the schedule W, from state st = <<a, b, c, d, e>>.
RECURSIVE SHA1_Rounds(_, _, _)
SHA1_Rounds(st, W, t) ==
    IF t = 80 \/ Len(st) # 5 THEN st
    ELSE SHA1_Rounds(<<Add32(Add32(RotL32(st[1], 5), SHA1_f(t, st[2], st[3], st[4])),
                             Add32(Add32(st[5], W[t + 1]), SHA1_K(t))),
                       st[1], RotL32(st[2], 30), st[3], st[4]>>,
                     W, t + 1)

\* The chaining value after a block: the sum of the value before and of
\* what the rounds gave.
SHA1_Sum(st, r) == [i \in 1..5 |-> Add32(st[i], r[i])]

\* The first 16 words of the schedule of block b.
SHA1_Words(p, b) == [w \in 1..16 |-> SHA1_BlockWord(p, b, w - 1)]

RECURSIVE SHA1_Blocks(_, _, _)
SHA1_Blocks(st, p, b) ==
    IF 64 * b >= Len(p) THEN st
    ELSE SHA1_Blocks(
             SHA1_Sum(st, SHA1_Rounds(st, SHA1_Schedule(SHA1_Words(p, b), 16), 0)),
             p, b + 1)

\* The four bytes of a word, big-endian.
BytesOfWord(x) == <<x[1] \div 256, x[1] % 256, x[2] \div 256, x[2] % 256>>

BytesOfWords(d) ==
    BytesOfWord(d[1]) \o BytesOfWord(d[2]) \o BytesOfWord(d[3])
        \o BytesOfWord(d[4]) \o BytesOfWord(d[5])

\* hashlib.sha1(bytes).digest()
sha1_digest(bytes) == BytesOfWords(SHA1_Blocks(SHA1_IV, SHA1_Pad(bytes), 0))

RECURSIVE HexBytes(_)
HexBytes(bytes) ==
    IF bytes = <<>> THEN <<>> ELSE HexByte(Head(bytes)) \o HexBytes(Tail(bytes))

\* uuid.UUID('12345678-1234-5678-1234-123456789abc').bytes
namespace ==
    <<18, 52, 86, 120, 18, 52, 86, 120, 18, 52, 18, 52, 86, 120, 154, 188>>

\* The first 16 bytes of a digest, the version nibble set to 5 and the
\* variant bits to 10 (RFC 4122).
UuidBytes(h) ==
    [i \in 1..16 |->
        CASE i = 7 -> (h[i] % 16) + 80
          [] i = 9 -> (h[i] % 64) + 128
          [] OTHER -> h[i]]

\* str(UUID): the bytes in hexadecimal, written 8-4-4-4-12
UuidText(b) ==
    HexBytes(SubSeq(b, 1, 4)) \o <<"-">> \o HexBytes(SubSeq(b, 5, 6)) \o <<"-">>
        \o HexBytes(SubSeq(b, 7, 8)) \o <<"-">> \o HexBytes(SubSeq(b, 9, 10))
        \o <<"-">> \o HexBytes(SubSeq(b, 11, 16))

\* str(uuid.uuid5(namespace, name))
uuid5(ns, name) == UuidText(UuidBytes(sha1_digest(ns \o encode(name))))

\* f"table_{table_name}"
S_table_ == <<"t", "a", "b", "l", "e", "_">>

_generate_point_id(table_name) == uuid5(namespace, S_table_ \o table_name)

(***************************************************************************)
(* The index (vector_store.py) and the ingestion of the knowledge base     *)
(* (schema_processor.py, ingest_schema).  The Qdrant collection is a       *)
(* mapping from point ids to points; a point is a vector and a payload.    *)
(* Qdrant's upsert overwrites the point of an id, its search returns the   *)
(* points nearest to the query vector, best first, at most limit of them.  *)
(***************************************************************************)
\* settings.POC_TABLES (config.py) names 17 tables; the model takes two of them
poc_tables == <<N_o, N_r>>

\* The embeddings the model returns: vectors of length 5, so that the dot
\* product of two of them is 25 times the cosine of their angle.
Vectors == {<<4, 3>>, <<3, 4>>}

\* main.py calls find_relevant_tables with limit=5 (/query/sql), limit=1
\* (/debug/test-ingestion) and limit=3; the model takes the first two
Limits == {1, 5}

RunIds == {1}
FindIds == {1}

\* A JSON value: an object is a Python dict, a number a Python int.
JDict(d) == [type |-> "dict", dict |-> d, number |-> 0]
JNumber(n) == [type |-> "number", dict |-> EmptyDict, number |-> n]

\* bool(value)
Truthy(v) ==
    CASE v.type = "dict" -> DOMAIN v.dict # {}
      [] v.type = "number" -> v.number # 0

\* A file of the knowledge base, or a line of the catalog: absent, a text
\* that is not JSON, a text of white space, or the JSON text of a value.
Missing == [kind |-> "missing", value |-> JNumber(0)]
NotJson == [kind |-> "invalid", value |-> JNumber(0)]
Blank == [kind |-> "blank", value |-> JNumber(0)]
Json(v) == [kind |-> "json", value |-> v]

\* The metadata of the model's tables, and their catalog entries.
TD_o ==
    ("display_name" :> V_orders) @@ ("fields" :> <<Item(V_a, V_x_int)>>)
        @@ ("examples" :> <<X_count>>)
TD_r == ("description" :> V_order_table) @@ ("fields" :> <<Item(V_b, V_y)>>)
CI_o ==
    ("table_name" :> N_o) @@ ("description" :> V_catalog_text)
        @@ ("business_purpose" :> V_purpose)
CI_r == ("table_name" :> N_r) @@ ("owner" :> V_owner)
CI_unnamed == ("description" :> V_catalog_text)

\* What the file of the first table may hold, of the second, and the catalog.
FilesOf_o == {Missing, NotJson, Json(JDict(EmptyDict)), Json(JDict(TD_o)), Json(JNumber(42))}
FilesOf_r == {Missing, Json(JDict(TD_r))}
Catalogs ==
    { <<>>,
      <<Json(JDict(CI_o)), Blank, Json(JDict(CI_unnamed)), Json(JDict(CI_r))>>,
      <<Json(JDict(CI_o)), NotJson, Json(JDict(CI_r))>>,
      <<Json(JDict(CI_o)), Json(JNumber(42)), Json(JDict(CI_r))>> }

KnowledgeBase(exists, file_o, file_r, has_catalog, catalog) ==
    [exists |-> exists, files |-> (N_o :> file_o) @@ (N_r :> file_r),
     has_catalog |-> has_catalog, catalog |-> catalog]

\* The states of the directory kb_path: absent; the two tables' files in
\* every combination, with a well-formed catalog; the two well-formed files
\* with every catalog, and with none.
KnowledgeBases ==
    {KnowledgeBase(FALSE, Missing, Missing, FALSE, <<>>)}
    \cup {KnowledgeBase(TRUE, fo, fr, TRUE, <<Json(JDict(CI_o)), Json(JDict(CI_r))>>) :
             fo \in FilesOf_o, fr \in FilesOf_r}
    \cup {KnowledgeBase(TRUE, Json(JDict(TD_o)), Json(JDict(TD_r)), TRUE, c) : c \in Catalogs}
    \cup {KnowledgeBase(TRUE, Json(JDict(TD_o)), Json(JDict(TD_r)), FALSE, <<>>)}

\* The names of the tables the model stores.
TableNames == {N_o, N_r, N_sa}

\* point_id = self._generate_point_id(table_name), for each table of the
\* model: TLC computes the table once.
PointId == [t \in TableNames |-> _generate_point_id(t)]

\* self.client.delete_collection(...); self.client.create_collection(...)
create_collection == EmptyDict

\* models.PointStruct(id=point_id, vector=..., payload=...)
PointStruct(id, vector, payload) == [id |-> id, vector |-> vector, payload |-> payload]

\* an upsert that keeps the payload keys of the point it overwrites
RECURSIVE upsert_Merging(_, _)
upsert_Merging(coll, points) ==
    IF points = <<>> THEN coll
    ELSE upsert_Merging(
             (Head(points).id :>
                  [vector |-> Head(points).vector,
                   payload |-> IF Head(points).id \in DOMAIN coll
                               THEN Head(points).payload @@ coll[Head(points).id].payload
                               ELSE Head(points).payload])
                 @@ coll,
             Tail(points))

\* self.client.upsert(collection_name, points): each point takes the place of
\* the point of its id, in the order of the list
RECURSIVE upsert(_, _)
upsert(coll, points) ==
    IF points = <<>> THEN coll
    ELSE upsert((Head(points).id :> [vector |-> Head(points).vector,
                                     payload |-> Head(points).payload])
                    @@ coll,
                Tail(points))

\* datetime.now().isoformat(): the text of the clock's reading, here the reading
isoformat(t) == t

\* store_table_schema, lines 81-87: the payload of the point
StorePayload(table_name, text, table_data, catalog_info, time) ==
    ("table_name" :> table_name) @@ ("schema_text" :> text)
        @@ ("table_data" :> table_data) @@ ("catalog_info" :> catalog_info)
        @@ ("ingestion_time" :> isoformat(time))

\* store_table_schema: the point of one table, upserted alone
store_table_schema(coll, table_name, text, table_data, catalog_info, embedding, time) ==
    upsert(coll,
           <<PointStruct(PointId[table_name], embedding,
                         StorePayload(table_name, text, table_data, catalog_info, time))>>)

\* store_multiple_schemas: a point per schema_point, its id from the table
\* name in the payload; the points are upserted in batches of 100
store_multiple_schemas(coll, schema_points) ==
    upsert(coll,
           [i \in 1..Len(schema_points) |->
               PointStruct(PointId[schema_points[i].payload["table_name"]],
                           schema_points[i].embedding, schema_points[i].payload)])

\* The score of a point for a query vector (Distance.COSINE), times 25.
Score(vector, query_vector) ==
    (vector[1] * query_vector[1]) + (vector[2] * query_vector[2])

\* self.client.search(query_vector, limit): the answers Qdrant may give, each
\* a list of the min(limit, size) points of the best scores, best first; points
\* of equal score come in any order.
search(coll, query_vector, limit) ==
    LET ids == DOMAIN coll
        n == Min({limit, Cardinality(ids)})
        score(id) == Score(coll[id].vector, query_vector)
    IN  { [i \in 1..n |-> [id |-> s[i], score |-> score(s[i]), payload |-> coll[s[i]].payload]] :
            s \in { t \in [1..n -> ids] :
                      /\ \A i, j \in 1..n : i < j => t[i] # t[j] /\ score(t[i]) >= score(t[j])
                      /\ \A id \in ids :
                            (\A i \in 1..n : t[i] # id)
                                => \A i \in 1..n : score(t[i]) >= score(id) } }

\* a formatting that returns the results in the opposite order
FormatResults_Reversed(search_results) ==
    LET n == Len(search_results)
    IN  [i \in 1..n |->
            [table_name |-> search_results[n + 1 - i].payload["table_name"],
             schema_text |-> search_results[n + 1 - i].payload["schema_text"],
             score |-> search_results[n + 1 - i].score,
             table_data |-> dict_get(search_results[n + 1 - i].payload, "table_data", EmptyDict),
             catalog_info |-> dict_get(search_results[n + 1 - i].payload, "catalog_info", EmptyDict)]]

\* find_relevant_tables, lines 151-159: a dict per result, in the results' order
FormatResults(search_results) ==
    [i \in 1..Len(search_results) |->
        [table_name |-> search_results[i].payload["table_name"],
         schema_text |-> search_results[i].payload["schema_text"],
         score |-> search_results[i].score,
         table_data |-> dict_get(search_results[i].payload, "table_data", EmptyDict),
         catalog_info |-> dict_get(search_results[i].payload, "catalog_info", EmptyDict)]]

\* _load_table_file: json.load(f); {} when the text is not JSON
_load_table_file(file) ==
    IF file.kind = "json" THEN file.value ELSE JDict(EmptyDict)

\* _load_catalog_index, the loop over the lines from line i on: a blank line
\* and a line that is not JSON are passed over; entry.get raises for a value
\* that is not a dict, and the except clause around the loop ends the loading
RECURSIVE LoadLines(_, _, _)
LoadLines(lines, i, catalog_data) ==
    IF i > Len(lines) THEN catalog_data
    ELSE IF lines[i].kind # "json" THEN LoadLines(lines, i + 1, catalog_data)
    ELSE IF lines[i].value.type # "dict" THEN catalog_data
    ELSE LET entry == lines[i].value.dict
         IN  IF "table_name" \in DOMAIN entry /\ entry["table_name"] # <<>>
             THEN LoadLines(lines, i + 1, (entry["table_name"] :> entry) @@ catalog_data)
             ELSE LoadLines(lines, i + 1, catalog_data)

_load_catalog_index(base) ==
    IF base.has_catalog THEN LoadLines(base.catalog, 1, EmptyDict) ELSE EmptyDict

\* SchemaIngestionStatus (message and ingestion_time left out)
SchemaIngestionStatus(status, processed_tables, catalog_loaded) ==
    [status |-> status, processed_tables |-> processed_tables,
     catalog_loaded |-> catalog_loaded]

NoStatus == SchemaIngestionStatus("none", 0, FALSE)

NoPending ==
    [table_name |-> <<>>, table_data |-> EmptyDict, catalog_info |-> EmptyDict,
     schema_text |-> <<>>]

\* A call of ingest_schema: where it stands, its locals, what it returned,
\* and as history the names of the catalog it loaded, the tables it upserted
\* and whether an embedding failed.
NewRun ==
    [pc |-> "idle", i |-> 0, catalog_data |-> EmptyDict, schema_points |-> <<>>,
     processed_tables |-> 0, pending |-> NoPending, returned |-> NoStatus,
     catalog_names |-> {}, indexed |-> {}, embedding_failed |-> FALSE]

\* A call of find_relevant_tables: where it stands, its limit, what the
\* search returned and what the call returned.
NewFind ==
    [pc |-> "idle", limit |-> 0, search_results |-> <<>>, relevant_tables |-> <<>>,
     raised |-> FALSE, size |-> 0]

\* ingest_schema, lines 37-81: the loop over poc_tables from table i on, up to
\* the await of the next embedding ("embedding"), an exception ("raised") or
\* the end of the loop ("storing")
RECURSIVE ProcessTables(_, _, _, _)
ProcessTables(run, i, base, order) ==
    IF i > Len(poc_tables) THEN [run EXCEPT !.pc = "storing", !.i = i]
    ELSE LET table_name == poc_tables[i]
             table_data == _load_table_file(base.files[table_name])
             catalog_info == dict_get(run.catalog_data, table_name, EmptyDict)
         IN  IF base.files[table_name].kind = "missing"
             THEN ProcessTables(run, i + 1, base, order)
             ELSE IF ~Truthy(table_data)
             THEN ProcessTables(run, i + 1, base, order)
             ELSE IF table_data.type # "dict"
             THEN [run EXCEPT !.pc = "raised", !.i = i]
             ELSE [run EXCEPT
                      !.pc = "embedding", !.i = i,
                      !.pending =
                          [table_name |-> table_name, table_data |-> table_data.dict,
                           catalog_info |-> catalog_info,
                           schema_text |->
                               _process_table_schema_with_examples(
                                   table_data.dict, table_name, catalog_info, order)]]

\* The names of the tables of a list of schema points.
RECURSIVE TablesOf(_)
TablesOf(schema_points) ==
    IF schema_points = <<>> THEN {}
    ELSE {Head(schema_points).payload["table_name"]} \cup TablesOf(Tail(schema_points))

\* ingest_schema, lines 83-104: after the loop the batch is stored and the
\* call returns success; an exception makes it return the error status
Returned(run) ==
    CASE run.pc = "storing" ->
            [run EXCEPT
                !.pc = "done",
                !.returned = SchemaIngestionStatus("success", run.processed_tables,
                                                   DOMAIN run.catalog_data # {}),
                !.indexed = TablesOf(run.schema_points),
                !.schema_points = <<>>, !.catalog_data = EmptyDict, !.i = 0]
      [] run.pc = "raised" ->
            [run EXCEPT
                !.pc = "done",
                !.returned = SchemaIngestionStatus("error", 0, FALSE),
                !.schema_points = <<>>, !.catalog_data = EmptyDict, !.i = 0,
                !.pending = NoPending]
      [] OTHER -> run

StoredBy(run, coll) ==
    IF run.pc = "storing" /\ run.schema_points # <<>>
    THEN store_multiple_schemas(coll, run.schema_points)
    ELSE coll

\* ingest_schema up to its first await of an embedding: the collection is
\* created anew, the directory looked for, the catalog loaded
ingest_schema(n) ==
    /\ runs[n].pc \in {"idle", "done"}
    /\ LET catalog_data == _load_catalog_index(kb)
           run == IF ~kb.exists THEN [NewRun EXCEPT !.pc = "raised"]
                  ELSE ProcessTables([NewRun EXCEPT !.catalog_data = catalog_data,
                                                    !.catalog_names = DOMAIN catalog_data],
                                     1, kb, hash_order)
       IN  /\ runs' = [runs EXCEPT ![n] = Returned(run)]
           /\ collection' = StoredBy(run, create_collection)
           /\ last_upsert' = <<>>
    /\ UNCHANGED <<kb, finds>>

\* embedding = await sql_generator.get_embedding(schema_text) returns: the
\* schema point is appended and the loop goes on
IngestEmbedded(n, embedding) ==
    /\ runs[n].pc = "embedding"
    /\ LET r == runs[n]
           examples == dict_get(r.pending.table_data, "examples", <<>>)
           schema_point ==
               [embedding |-> embedding,
                payload |->
                    ("table_name" :> r.pending.table_name)
                        @@ ("schema_text" :> r.pending.schema_text)
                        @@ ("table_data" :> r.pending.table_data)
                        @@ ("catalog_info" :> r.pending.catalog_info)
                        @@ ("query_examples_count" :> Len(examples))
                        @@ ("has_query_examples" :> (Len(examples) > 0))
                        @@ ("ingestion_time" :> isoformat(now))]
           run == ProcessTables(
                      [r EXCEPT !.schema_points = Append(r.schema_points, schema_point),
                                !.processed_tables = r.processed_tables + 1,
                                !.pending = NoPending],
                      r.i + 1, kb, hash_order)
       IN  /\ runs' = [runs EXCEPT ![n] = Returned(run)]
           /\ collection' = StoredBy(run, collection)
           /\ last_upsert' =
                  IF run.pc = "storing"
                  THEN [i \in 1..Len(run.schema_points) |->
                           [table_name |-> run.schema_points[i].payload["table_name"],
                            vector |-> run.schema_points[i].embedding,
                            payload |-> run.schema_points[i].payload]]
                  ELSE last_upsert
    /\ UNCHANGED <<kb, finds>>

\* get_embedding raises: ingest_schema returns the error status
IngestEmbeddingRaises(n) ==
    /\ runs[n].pc = "embedding"
    /\ runs' = [runs EXCEPT ![n] =
                   Returned([runs[n] EXCEPT !.pc = "raised", !.embedding_failed = TRUE])]
    /\ UNCHANGED <<kb, finds, collection, last_upsert>>

\* A caller stores the schema of one table.
StoreTable(table_name, table_data, catalog_info, embedding) ==
    LET text == _process_table_schema_with_examples(table_data, table_name,
                                                    catalog_info, hash_order)
        coll == store_table_schema(collection, table_name, text, table_data,
                                   catalog_info, embedding, now)
    IN  /\ collection' = coll
        /\ last_upsert' =
               <<[table_name |-> table_name, vector |-> embedding,
                  payload |-> StorePayload(table_name, text, table_data,
                                           catalog_info, now)]>>
        /\ UNCHANGED <<kb, finds, runs>>

\* find_relevant_tables up to its await of the embedding of the question
find_relevant_tables(f, limit) ==
    /\ finds[f].pc \in {"idle", "done"}
    /\ finds' = [finds EXCEPT ![f] = [NewFind EXCEPT !.pc = "embedding", !.limit = limit]]
    /\ UNCHANGED <<kb, runs, collection, last_upsert>>

\* the embedding returns: the collection is searched, the results formatted
FindSearched(f, query_embedding) ==
    /\ finds[f].pc = "embedding"
    /\ \E search_results \in search(collection, query_embedding, finds[f].limit) :
          finds' = [finds EXCEPT ![f] =
                       [@ EXCEPT !.pc = "done",
                                 !.search_results = search_results,
                                 !.relevant_tables = FormatResults(search_results),
                                 !.size = Cardinality(DOMAIN collection)]]
    /\ UNCHANGED <<kb, runs, collection, last_upsert>>

\* the embedding or the search raises: the exception is logged and raised again
FindRaises(f) ==
    /\ finds[f].pc = "embedding"
    /\ finds' = [finds EXCEPT ![f] = [@ EXCEPT !.pc = "done", !.raised = TRUE]]
    /\ UNCHANGED <<kb, runs, collection, last_upsert>>

\* What single stores are called with.
StoreNames == {N_o, N_sa}

IndexInit ==
    /\ QueryCache_init
    /\ ValidatorOff
    /\ PipelineInit
    /\ calls = <<>>
    /\ lin = <<>>
    /\ ncalls = 0
    /\ GeneratorOff
    /\ hash_order = HashOrder_1
    /\ doc_input = <<>>
    /\ schema_text = <<>>
    /\ earlier_text = <<>>
    /\ builds = 0
    /\ collection = EmptyDict
    /\ kb \in KnowledgeBases
    /\ runs = [n \in RunIds |-> NewRun]
    /\ finds = [f \in FindIds |-> NewFind]
    /\ last_upsert = <<>>
    /\ StatusOff

index_unchanged ==
    UNCHANGED <<vvars, cvars, pvars, calls, lin, ncalls, gvars, dvars, svars>>

Ingest == \E n \in RunIds : ingest_schema(n) /\ index_unchanged

Embedded == \E n \in RunIds, v \in Vectors : IngestEmbedded(n, v) /\ index_unchanged

EmbeddingFails == \E n \in RunIds : IngestEmbeddingRaises(n) /\ index_unchanged

StoreOne ==
    \E t \in StoreNames, v \in Vectors :
        StoreTable(t, TD_r, EmptyDict, v) /\ index_unchanged

Find == \E f \in FindIds, limit \in Limits : find_relevant_tables(f, limit) /\ index_unchanged

Searched == \E f \in FindIds, v \in Vectors : FindSearched(f, v) /\ index_unchanged

FindFails == \E f \in FindIds : FindRaises(f) /\ index_unchanged

IndexNext ==
    \/ Ingest
    \/ Embedded
    \/ EmbeddingFails
    \/ StoreOne
    \/ Find
    \/ Searched
    \/ FindFails

SpecIndex == IndexInit /\ [][IndexNext]_vars

(***************************************************************************)
(* Properties of the index and of the ingestion (SpecIndex).               *)
(***************************************************************************)
\* A call of find_relevant_tables has returned a list.
FindReturned(f) == finds[f].pc = "done" /\ ~finds[f].raised

\* C15: find_relevant_tables(question, limit) returns at most limit tables: a
\* table for each result of the search, in the results' order, with the
\* result's score, name, document, metadata and catalog entry, so that the
\* scores never rise along the list; when the collection holds no point the
\* call returns the empty list.
C15_FindReturnsSearchResults ==
    \A f \in FindIds :
        FindReturned(f) =>
            LET relevant_tables == finds[f].relevant_tables
                search_results == finds[f].search_results
            IN  /\ Len(relevant_tables) <= finds[f].limit
                /\ Len(relevant_tables) = Len(search_results)
                /\ \A i \in 1..Len(relevant_tables) :
                      /\ i <= Len(search_results)
                      /\ relevant_tables[i].score = search_results[i].score
                      /\ relevant_tables[i].table_name
                             = search_results[i].payload["table_name"]
                      /\ relevant_tables[i].schema_text
                             = search_results[i].payload["schema_text"]
                      /\ relevant_tables[i].table_data
                             = search_results[i].payload["table_data"]
                      /\ relevant_tables[i].catalog_info
                             = search_results[i].payload["catalog_info"]
                /\ \A i, j \in 1..Len(relevant_tables) :
                      i < j => relevant_tables[i].score >= relevant_tables[j].score
                /\ finds[f].size = 0 => relevant_tables = <<>>

\* A search of three points with limit 5 has returned the three of them, the
\* first with a higher score than the last.
C15_Witness ==
    \E f \in FindIds :
        /\ FindReturned(f)
        /\ finds[f].limit = 5
        /\ finds[f].size = 3
        /\ Len(finds[f].relevant_tables) = 3
        /\ finds[f].relevant_tables[1].score > finds[f].relevant_tables[3].score

\* A search of several points with limit 1 has returned one table.
C15_Truncated ==
    \E f \in FindIds :
        /\ FindReturned(f)
        /\ finds[f].limit = 1
        /\ finds[f].size > 1
        /\ Len(finds[f].relevant_tables) = 1

\* A search of the empty collection has returned the empty list.
C15_NothingIndexed ==
    \E f \in FindIds :
        FindReturned(f) /\ finds[f].size = 0 /\ finds[f].relevant_tables = <<>>

\* The points of the collection that hold the document of a table.
PointsOf(table_name) ==
    {p \in DOMAIN collection : collection[p].payload["table_name"] = table_name}

\* C16: the collection holds at most one point per table name: the id of a
\* point is the id _generate_point_id gives the table name of its payload, and
\* after an upsert the point of each table stored is the vector and the
\* payload that were stored, nothing of the point before remaining.
C16_OnePointPerTable ==
    /\ \A p \in DOMAIN collection :
          /\ collection[p].payload["table_name"] \in TableNames
          /\ p = PointId[collection[p].payload["table_name"]]
    /\ \A t \in TableNames : Cardinality(PointsOf(t)) <= 1
    /\ \A i \in 1..Len(last_upsert) :
          /\ PointId[last_upsert[i].table_name] \in DOMAIN collection
          /\ collection[PointId[last_upsert[i].table_name]].vector = last_upsert[i].vector
          /\ DOMAIN collection[PointId[last_upsert[i].table_name]].payload
                 = DOMAIN last_upsert[i].payload
          /\ collection[PointId[last_upsert[i].table_name]].payload = last_upsert[i].payload

\* An ingestion run indexed the first table, and a single store has since
\* put its own point in the place of the run's: the collection holds three
\* points, the first table's with the payload of store_table_schema.
C16_Witness ==
    /\ \E n \in RunIds : runs[n].pc = "done" /\ N_o \in runs[n].indexed
    /\ Cardinality(DOMAIN collection) = 3
    /\ PointId[N_o] \in DOMAIN collection
    /\ "query_examples_count" \notin DOMAIN collection[PointId[N_o]].payload
    /\ "query_examples_count" \in DOMAIN collection[PointId[N_r]].payload
    /\ Len(last_upsert) = 1
    /\ last_upsert[1].table_name = N_o

\* A file that holds the metadata of a table: the JSON text of a non-empty object.
HoldsMetadata(file) ==
    file.kind = "json" /\ file.value.type = "dict" /\ DOMAIN file.value.dict # {}

\* A file that is missing or malformed: absent, not JSON, or JSON that is
\* not an object.
MissingOrMalformed(file) ==
    file.kind # "json" \/ file.value.type # "dict"

\* The table names of the well-formed lines of the catalog: the lines that
\* hold a JSON object with a table_name.
RECURSIVE WellFormedNames(_)
WellFormedNames(lines) ==
    IF lines = <<>> THEN {}
    ELSE (IF /\ Head(lines).kind = "json"
             /\ Head(lines).value.type = "dict"
             /\ "table_name" \in DOMAIN Head(lines).value.dict
          THEN {Head(lines).value.dict["table_name"]}
          ELSE {})
         \cup WellFormedNames(Tail(lines))

\* C20: an ingestion run over an existing directory, in which no embedding
\* failed, returns success with processed_tables the number of the tables it
\* upserted; these are all the tables whose file holds metadata and no table
\* whose file is missing or malformed; and the catalog it loaded has the
\* entry of every well-formed line.
C20_MalformedIsSkipped ==
    \A n \in RunIds :
        (runs[n].pc = "done" /\ kb.exists /\ ~runs[n].embedding_failed) =>
            /\ runs[n].returned.status = "success"
            /\ runs[n].returned.processed_tables = Cardinality(runs[n].indexed)
            /\ \A i \in 1..Len(poc_tables) :
                  /\ HoldsMetadata(kb.files[poc_tables[i]]) => poc_tables[i] \in runs[n].indexed
                  /\ MissingOrMalformed(kb.files[poc_tables[i]])
                         => poc_tables[i] \notin runs[n].indexed
            /\ kb.has_catalog => runs[n].catalog_names = WellFormedNames(kb.catalog)

\* The same for the runs over a knowledge base whose files and catalog lines
\* are absent, not JSON, or JSON objects.
OnlyObjects ==
    /\ \A i \in 1..Len(poc_tables) :
          kb.files[poc_tables[i]].kind = "json" => kb.files[poc_tables[i]].value.type = "dict"
    /\ \A i \in 1..Len(kb.catalog) :
          kb.catalog[i].kind = "json" => kb.catalog[i].value.type = "dict"

C20_Scenario == OnlyObjects => C20_MalformedIsSkipped

\* C21: an ingestion run that finds no directory kb_path returns the error
\* status with processed_tables 0, and every point the collection held when
\* the run was called is still in the collection when it returns.
C21_MissingDirectoryKeepsIndex ==
    [][\A n \in RunIds :
          (~kb.exists /\ runs[n].pc = "idle" /\ runs'[n].pc = "done") =>
              /\ runs'[n].returned = SchemaIngestionStatus("error", 0, FALSE)
              /\ \A p \in DOMAIN collection :
                    p \in DOMAIN collection' /\ collection'[p] = collection[p]]_vars

\* The run's answer alone: the error status, no table processed.
C21_Scenario ==
    \A n \in RunIds :
        (~kb.exists /\ runs[n].pc = "done") =>
            runs[n].returned = SchemaIngestionStatus("error", 0, FALSE)

\* main.py 135-146: what the /query/sql handler does with the answer of
\* find_relevant_tables: an exception of the call is answered 500, an empty
\* list 404, and with tables the handler goes on to generate_sql
RetrievalOutcome(find) ==
    IF find.raised THEN "search_raises"
    ELSE IF find.relevant_tables = <<>> THEN "none"
    ELSE "tables"

\* The search of call f takes place in this step and returns.
Searches(f) ==
    /\ finds[f].pc = "embedding"
    /\ finds'[f].pc = "done"
    /\ ~finds'[f].raised

\* The same for a call with the limit of the /query/sql handler.
RequestSearches(f) == Searches(f) /\ finds'[f].limit = 5

\* A run that has reset the index and not yet stored its batch.
InProgress(run) == run.pc = "embedding"

\* A call that searches after a run has returned success searches a
\* collection that holds a point of every table of the run's batch, and is
\* given as many of the collection's tables as its limit allows.
ObservesBatch ==
    \A f \in FindIds, n \in RunIds :
        (Searches(f) /\ runs[n].pc = "done" /\ runs[n].returned.status = "success") =>
            /\ \A t \in runs[n].indexed : PointsOf(t) # {}
            /\ Len(finds'[f].relevant_tables)
                   = Min({finds'[f].limit, Cardinality(DOMAIN collection)})

\* C22: a request whose search takes place while an ingestion run is between
\* the reset of the index and the batch upsert goes on with the tables it is
\* given, whatever the index holds then: it is not answered with an error;
\* and a request that searches after the run has completed searches an index
\* that holds all the tables of the batch.
C22_ConcurrentRequestNotFailed ==
    [][/\ \A f \in FindIds, n \in RunIds :
             (RequestSearches(f) /\ InProgress(runs[n])) =>
                 RetrievalOutcome(finds'[f]) = "tables"
       /\ ObservesBatch]_vars

\* The second half alone: after the run has completed its tables are
\* observed by every request.
C22_Scenario == [][ObservesBatch]_vars

\* A request searched during a run and after a single store: it was given
\* the table of the store and went on.
C22_PartialIndex ==
    \E f \in FindIds, n \in RunIds :
        /\ FindReturned(f)
        /\ finds[f].limit = 5
        /\ InProgress(runs[n])
        /\ finds[f].size = 1
        /\ RetrievalOutcome(finds[f]) = "tables"

(***************************************************************************)
(* The status application (src/app): a FastAPI application with the one    *)
(* route GET /status.  The framework answers a request that matches no     *)
(* route: 405 when the path is a route's under another method, else 404.   *)
(***************************************************************************)
\* How many requests the status application serves in the model.
MaxServed == 3

Methods == {"GET", "POST"}

Paths == {"/status", "/", "/health"}

\* A handler whose answer depends on the requests served before.
status_AfterFirst == [status |-> IF served = <<>> THEN "running" ELSE "busy"]

\* def status() -> dict[str, str]: return {"status": "running"}
status == [status |-> "running"]

\* @status_router.get("/status")
status_router == {[method |-> "GET", path |-> "/status"]}

\* app = FastAPI(); app.include_router(status_router): a request of a route
\* is answered 200 with what the route's function returns
app(method, path) ==
    IF [method |-> method, path |-> path] \in status_router
    THEN [status_code |-> 200, json |-> status]
    ELSE IF \E route \in status_router : route.path = path
    THEN [status_code |-> 405, json |-> [detail |-> "Method Not Allowed"]]
    ELSE [status_code |-> 404, json |-> [detail |-> "Not Found"]]

\* The application serves one request.
Serve(method, path) ==
    /\ Len(served) < MaxServed
    /\ served' = Append(served, [method |-> method, path |-> path,
                                 response |-> app(method, path)])

StatusInit ==
    /\ QueryCache_init
    /\ ValidatorOff
    /\ PipelineInit
    /\ calls = <<>>
    /\ lin = <<>>
    /\ ncalls = 0
    /\ GeneratorOff
    /\ DocumentOff
    /\ IndexOff
    /\ served = <<>>

StatusNext ==
    \E method \in Methods, path \in Paths :
        Serve(method, path)
            /\ UNCHANGED <<vvars, cvars, pvars, calls, lin, ncalls, gvars, dvars, ivars>>

SpecStatus == StatusInit /\ [][StatusNext]_vars

\* C23: every GET /status the application served was answered with HTTP 200
\* and the body {"status": "running"}, whatever requests were served before it.
C23_StatusAlwaysRunning ==
    \A i \in 1..Len(served) :
        (served[i].method = "GET" /\ served[i].path = "/status") =>
            /\ served[i].response.status_code = 200
            /\ served[i].response.json = [status |-> "running"]

\* GET /status was served first, then a request that matched no route, then
\* GET /status again.
C23_Witness ==
    /\ Len(served) = 3
    /\ served[1].method = "GET" /\ served[1].path = "/status"
    /\ served[2].response.status_code # 200
    /\ served[3].method = "GET" /\ served[3].path = "/status"
    /\ served[3].response.status_code = 200

(***************************************************************************)
(* Further properties of the validator (SpecValidator).                    *)
(***************************************************************************)
\* Somewhere in the text first occurs and, anywhere after it, second, in any
\* letter case.
FollowedBy(sql, first, second) ==
    \E i \in 1..Len(sql) :
        /\ MatchesAt(sql, i, first)
        /\ \E j \in (i + Len(first))..Len(sql) : MatchesAt(sql, j, second)

\* The text holds one of the injection patterns: a semicolon followed by
\* DROP or DELETE, a line comment marker, a block comment, UNION followed by
\* SELECT, xp_cmdshell, sp_executesql.
HoldsInjectionPattern(sql) ==
    \/ SearchSemicolonThen(sql, K_DROP)
    \/ SearchSemicolonThen(sql, K_DELETE)
    \/ Mentions(sql, K_DASHES)
    \/ FollowedBy(sql, K_OPEN_COMMENT, K_CLOSE_COMMENT)
    \/ FollowedBy(sql, K_UNION, K_SELECT)
    \/ Mentions(sql, K_XP_CMDSHELL)
    \/ Mentions(sql, K_SP_EXECUTESQL)

\* How many of the errors are the injection error.
InjectionErrors(v) ==
    Cardinality({k \in 1..Len(v.errors) : v.errors[k].text = MSG_INJECTION})

\* The patterns of the source's list that match the text.
MatchedPatterns(sql) ==
    {k \in 1..Len(injection_patterns) : re_search(injection_patterns[k], sql)}

\* C24: a text that holds an injection pattern (a semicolon followed by DROP
\* or DELETE, a line comment marker, a block comment, UNION followed by
\* SELECT, xp_cmdshell, sp_executesql) is invalid, and its errors hold the
\* injection error exactly once however many patterns it holds; no text has
\* the injection error twice.
C24_InjectionRejectedOnce ==
    Validated =>
        /\ InjectionErrors(validation_result) <= 1
        /\ HoldsInjectionPattern(sql_query) =>
              /\ ~validation_result.is_valid
              /\ InjectionErrors(validation_result) = 1

\* The same for the texts in which a pattern of the source's list matches,
\* where a block comment and UNION ... SELECT lie within one line.
C24_Scenario ==
    Validated =>
        /\ InjectionErrors(validation_result) <= 1
        /\ MatchedPatterns(sql_query) # {} =>
              /\ ~validation_result.is_valid
              /\ InjectionErrors(validation_result) = 1

\* A validated text that several patterns of the list match.
C24_ManyPatterns ==
    /\ Validated
    /\ Cardinality(MatchedPatterns(sql_query)) >= 2
    /\ InjectionErrors(validation_result) = 1

(***************************************************************************)
(* Further properties of the response parser (SpecGenerator).              *)
(***************************************************************************)
\* What each of the three attempts at the SQL text yields for a raw text,
\* the empty text when it finds nothing.
FencedBlock(text) ==
    LET code_block_match == SearchCodeBlock(text)
    IN  IF code_block_match.found THEN strip(code_block_match.group) ELSE <<>>

LabeledSection(text) == strip(SearchSqlPatterns(text, 1).group)

SelectStatement(text) == strip(SearchSelect(text).group)

\* The first of the three that is not empty.
FirstFound(text) ==
    IF FencedBlock(text) # <<>> THEN FencedBlock(text)
    ELSE IF LabeledSection(text) # <<>> THEN LabeledSection(text)
    ELSE SelectStatement(text)

\* The parsed SQL is the first non-empty yield of the three attempts, cleaned.
FirstFoundWins ==
    Parsed =>
        sql_result.sql_query
            = IF FirstFound(response_text) = <<>> THEN <<>>
              ELSE _clean_sql_query(FirstFound(response_text))

\* C25: the SQL of a parsed response is what the first of the three attempts
\* (fenced SQL block, labeled section, first SELECT ... ; statement) with a
\* non-empty yield found, a later attempt counting only when every earlier
\* one found nothing; and the SQL is empty only when all three found nothing.
C25_FirstStrategyWins ==
    /\ FirstFoundWins
    /\ Parsed =>
          (sql_result.sql_query = <<>> =>
              /\ FencedBlock(response_text) = <<>>
              /\ LabeledSection(response_text) = <<>>
              /\ SelectStatement(response_text) = <<>>)

\* The order of the attempts alone.
C25_Scenario == FirstFoundWins

\* A parsed response in which a fenced block, a labeled section and a SELECT
\* statement are all found, and differ: the block is the SQL.
C25_BlockBeforeLabel ==
    /\ Parsed
    /\ FencedBlock(response_text) # <<>>
    /\ LabeledSection(response_text) # <<>>
    /\ SelectStatement(response_text) # <<>>
    /\ FencedBlock(response_text) # LabeledSection(response_text)
    /\ FencedBlock(response_text) # SelectStatement(response_text)
    /\ sql_result.sql_query = _clean_sql_query(FencedBlock(response_text))

\* A parsed response without a fenced block in which a labeled section and a
\* SELECT statement are both found, and differ: the section is the SQL.
C25_LabelBeforeSelect ==
    /\ Parsed
    /\ FencedBlock(response_text) = <<>>
    /\ LabeledSection(response_text) # <<>>
    /\ SelectStatement(response_text) # <<>>
    /\ LabeledSection(response_text) # SelectStatement(response_text)
    /\ sql_result.sql_query = _clean_sql_query(LabeledSection(response_text))

\* A token of a tables section that is kept: not empty, at most 10 characters.
IsKept(token) == token # <<>> /\ Len(token) <= 10

\* The names of a list without the repetitions, in the order of their first
\* occurrences.
RECURSIVE FirstSeen(_)
FirstSeen(names) ==
    IF names = <<>> THEN <<>>
    ELSE LET before == FirstSeen(SubSeq(names, 1, Len(names) - 1))
             name == names[Len(names)]
         IN  IF InSeq(name, before) THEN before ELSE Append(before, name)

\* The tables of a contract response with tables section t: the kept tokens
\* of the section, and the names after FROM and JOIN in the parsed SQL when
\* no token is kept.
TablesOfSection(t, sql) ==
    LET kept == SelectSeq(NamesOf(split(t, ","), 1), IsKept)
    IN  IF kept # <<>> THEN kept ELSE FirstSeen(FindAllTables(sql, 1))

\* tables_used is what the section and the SQL call for, for the contract
\* responses whose tables section is among sections.
TablesKept(sections) ==
    Parsed =>
        \A s \in SqlSections, e \in ExplanationSections, t \in sections :
            response_text = ContractResponse(s, e, t) =>
                sql_result.tables_used = TablesOfSection(t, sql_result.sql_query)

\* C26: of the comma-separated tokens of a TABLES_USED section the parser
\* keeps the non-empty ones of at most 10 characters and discards the longer
\* ones; when no token is kept, and only then, tables_used is the table names
\* after FROM and JOIN in the SQL, each once, in first-seen order.
C26_TokensUpToTenKept == TablesKept(TablesSections)

\* The same for the sections whose names are letters only.
C26_LettersOnly == TablesKept({T_o, T_o_r, T_ten, T_long, T_mixed})

\* The same for the sections whose names are letters only and none of
\* exactly 10 characters.
C26_Scenario == TablesKept({T_o, T_o_r, T_long, T_mixed})

\* A contract response whose only token is too long: tables_used is the two
\* tables of the SQL, the repeated one once.
C26_FallsBack ==
    /\ Parsed
    /\ \E e \in ExplanationSections : response_text = ContractResponse(S_join, e, T_long)
    /\ sql_result.tables_used = <<N_o, N_r>>

\* A contract response with a long token between two short ones: the short
\* ones are tables_used.
C26_LongDiscarded ==
    /\ Parsed
    /\ \E s \in SqlSections, e \in ExplanationSections :
          response_text = ContractResponse(s, e, T_mixed)
    /\ sql_result.tables_used = <<N_o, N_r>>

(***************************************************************************)
(* Further properties of the request pipeline and of the cache.            *)
(***************************************************************************)
\* The handler of request r makes its cache lookup in this step.
LooksUp(r) == requests[r].pc = "cache_get" /\ requests'[r].pc # "cache_get"

\* C27: a request with execute_query whose validated SQL has a live cache
\* entry when the handler looks it up is answered at once, with executed
\* true and the results and row count of the cached result: the executor is
\* not called for it; and a request whose query was executed had looked the
\* text up before and missed.
C27_HitSkipsExecutor ==
    /\ [][\A r \in RequestIds :
             (LooksUp(r) /\ IsLive(requests[r].sql_query)) =>
                 LET cached == set_results[requests[r].sql_query].result
                 IN  /\ requests'[r].pc = "done"
                     /\ requests'[r].response.status = 200
                     /\ requests'[r].response.executed
                     /\ requests'[r].response.results = cached.results
                     /\ requests'[r].response.row_count = cached.row_count
                     /\ requests'[r].response.error = None
                     /\ ~InSeq("execution", requests'[r].steps)
                     /\ executed_sql' = executed_sql]_vars
    /\ [][\A r \in RequestIds :
             (requests[r].pc # "execute" /\ requests'[r].pc = "execute") =>
                 /\ LooksUp(r)
                 /\ ~IsLive(requests[r].sql_query)
                 /\ last'.op = "get" /\ last'.ret = None]_vars

\* Two requests had the same SQL: the first executed it, the second was
\* answered from the cache with the same rows and executed nothing.
C27_Witness ==
    \E r1, r2 \in RequestIds :
        /\ r1 # r2
        /\ requests[r1].pc = "done" /\ requests[r2].pc = "done"
        /\ requests[r1].sql_query = requests[r2].sql_query
        /\ InSeq("execution", requests[r1].steps)
        /\ InSeq("cache_set", requests[r1].steps)
        /\ InSeq("cache_get", requests[r2].steps)
        /\ ~InSeq("execution", requests[r2].steps)
        /\ requests[r2].response.executed
        /\ requests[r2].response.results = requests[r1].response.results
        /\ requests[r2].response.row_count = requests[r1].response.row_count

\* The query of request r was executed and the execution failed: the handler
\* went from the executor to the response without the set of the cache.
FailedExecution(r) ==
    /\ requests[r].pc = "done"
    /\ InSeq("execution", requests[r].steps)
    /\ ~InSeq("cache_set", requests[r].steps)

\* The handler of request r gets its execution result in this step, a failure.
ExecutionFails(r) ==
    /\ requests[r].pc = "execute"
    /\ requests'[r].pc = "done"
    /\ ~InSeq("cache_set", requests'[r].steps)

\* C28: the cache holds successful results only; an execution that fails
\* leaves the cache as it was and is answered with executed true, the error
\* of the execution and no results; and a later request with the same SQL
\* executes the query again.
C28_OnlySuccessCached ==
    /\ [](\A key \in DOMAIN _cache : _cache[key].success)
    /\ [](\A r \in RequestIds :
             FailedExecution(r) =>
                 /\ requests[r].response.status = 200
                 /\ requests[r].response.executed
                 /\ requests[r].response.error = Failure.error
                 /\ requests[r].response.results = None
                 /\ requests[r].response.row_count = None)
    /\ [][\A r \in RequestIds :
             ExecutionFails(r) => UNCHANGED <<_cache, _timestamps>>]_vars
    /\ [][\A r1, r2 \in RequestIds :
             (FailedExecution(r1) /\ LooksUp(r2)
                  /\ requests[r2].sql_query = requests[r1].sql_query) =>
                 /\ last'.ret = None
                 /\ requests'[r2].pc = "execute"]_vars

\* The execution of a request failed, and a later request with the same SQL
\* has executed the query again, with success, and cached the result.
C28_Witness ==
    \E r1, r2 \in RequestIds :
        /\ FailedExecution(r1)
        /\ requests[r2].pc = "done"
        /\ requests[r2].sql_query = requests[r1].sql_query
        /\ InSeq("execution", requests[r2].steps)
        /\ InSeq("cache_set", requests[r2].steps)
        /\ DOMAIN _cache # {}

\* validate_sql has returned, from the try block or from the except branch.
HasReturned == Validated \/ vpc = "failed"

\* C29: whatever validate_sql returns, for every text and also when a check
\* raised inside it, is_valid is false exactly when errors is not empty; a
\* result with warnings and no error is valid.
C29_InvalidIffErrors ==
    HasReturned =>
        /\ ~validation_result.is_valid <=> validation_result.errors # <<>>
        /\ (validation_result.warnings # <<>> /\ validation_result.errors = <<>>)
              => validation_result.is_valid

\* A check raised after warnings were recorded and no error: the result is
\* invalid and its only error is the one of the except branch.
C29_Witness ==
    /\ vpc = "failed"
    /\ validation_result.warnings # <<>>
    /\ validation_result.errors = <<Message(MSG_VALIDATION_ERROR, <<>>)>>
    /\ ~validation_result.is_valid

(***************************************************************************)
(* A set of a key the cache already holds.                                 *)
(***************************************************************************)
\* The step is a set of a text whose key the cache holds.
SetsStoredKey == IsCall("set") /\ CacheKey[last'.sql_query] \in DOMAIN _cache

\* The set of the step replaced the result and the insertion time of its key
\* and left every other entry, and the number of entries, as they were.
OnlyReplaces ==
    LET key == CacheKey[last'.sql_query]
    IN  /\ DOMAIN _cache' = DOMAIN _cache
        /\ Len(_timestamps') = Len(_timestamps)
        /\ _cache'[key] = set_results'[last'.sql_query].result
        /\ TimestampOf(_timestamps', key) = now
        /\ \A k \in (DOMAIN _cache) \ {key} :
              /\ _cache'[k] = _cache[k]
              /\ TimestampOf(_timestamps', k) = TimestampOf(_timestamps, k)

\* C30: a set for a key that is already stored only replaces that key's
\* result and insertion time: no other key's entry is removed and the number
\* of stored entries stays, also when the cache holds max_size entries.
C30_SetOfStoredKeyOnlyReplaces == [][SetsStoredKey => OnlyReplaces]_vars

\* The same for a cache that holds fewer than max_size entries.
C30_Scenario ==
    [][SetsStoredKey /\ Cardinality(DOMAIN _cache) < max_size => OnlyReplaces]_vars

\* A full cache was given a set of a key it held, and the set evicted the
\* entry of another key: the cache holds one entry less.
C30_EvictsOther ==
    /\ last.op = "set"
    /\ last.path = "evicted"
    /\ last.evicted # CacheKey[last.sql_query]
    /\ Cardinality(DOMAIN _cache) = max_size - 1

\* A set of a key that is stored in a cache with room.
C30_ReplacesWithRoom ==
    /\ last.op = "set"
    /\ last.path = "stored"
    /\ Cardinality(DOMAIN _cache) = 1
    /\ nops >= 2
    /\ distinct_run = [pure |-> FALSE, keys |-> <<>>, read |-> FALSE]

\* The handler of POST /query/sql sets a key the cache does not hold: the set
\* follows a get of the same text that returned None, in the same run of the
\* handler.
C30_ServiceSetsAbsentKey ==
    [][IsCall("set") => CacheKey[last'.sql_query] \notin DOMAIN _cache]_vars

=============================================================================
